---- MODULE Spec2Model ----
(***************************************************************************)
(* Playback resilience of OrionTV: the live fallback controller            *)
(* (components/LivePlayer), the player store's URL-candidate fallback      *)
(* (stores/playerStore.ts) and the video handlers' error path and          *)
(* filtered-playlist injection effect (hooks/useVideoHandlers).            *)
(***************************************************************************)
EXTENDS Integers, Sequences, FiniteSets, TLC

(***************************************************************************)
(* Bounds.                                                                 *)
(***************************************************************************)
\* timer handles the JS runtime can hand out before one is reused
MaxTimers == 2
\* filtered-playlist effect runs that may be in flight at the same time
MaxTasks == 1
\* handleVideoError calls that may be suspended at await setDetail at the same time
MaxErrorCalls == 1

(***************************************************************************)
(* State of the player store, the detail store and the video handlers.     *)
(***************************************************************************)
VARIABLES
  apiBaseUrl,            \* settings store
  vodAdBlockEnabled,     \* settings store
  detail,                \* detail store: source key of the current detail record
  failedSources,         \* detail store: sources marked as failed
  episodes,              \* player store
  currentEpisodeIndex,   \* player store
  isLoading,             \* player store
  loadCall,              \* the loadVideo call suspended at an await
  errorCalls,            \* handleVideoError calls suspended at await setDetail
  rendered,              \* last committed render: currentEpisode's rawUrl and url, vodAdBlockEnabled
  tasks,                 \* prepareFilteredPlaylist runs suspended at an await
  filteredPlaylistCache, \* playlist URLs with a cached filtered file
  vodOp                  \* history: the error handler or injection that ran last, and its outcome

vodVars == <<apiBaseUrl, vodAdBlockEnabled, detail, failedSources, episodes,
             currentEpisodeIndex, isLoading, loadCall, errorCalls,
             rendered, tasks, filteredPlaylistCache, vodOp>>


(***************************************************************************)
(* LIVE FALLBACK CONTROLLER                                                *)
(***************************************************************************)
VARIABLES
  streamUrl,             \* prop: requested stream URL (NoUrl = null)
  fallbackStreamUrl,     \* prop: optional fallback URL (NoUrl = null)
  activeStreamUrl,       \* useState: URL given to the <Video>
  liveIsLoading,         \* useState isLoading
  isTimeout,             \* useState isTimeout
  statusMessage,         \* useState statusMessage
  timers,                \* pending setTimeout handles
  timeoutRef,            \* timeoutRef.current (0 = null)
  hasSwitchedRef,        \* hasSwitchedRef.current
  fallbackStreamUrlRef,  \* fallbackStreamUrlRef.current
  liveOp,                \* history: the handler that ran last, with its pre-state
  activeHistory          \* history: values of activeStreamUrl since the last prop change

VARIABLES
  errorOf                \* history: the URL whose load failed in the last failure that
                         \* the <Video> of the live player reported

controllerVars == <<streamUrl, fallbackStreamUrl, activeStreamUrl, liveIsLoading, isTimeout,
                    statusMessage, timers, timeoutRef, hasSwitchedRef, fallbackStreamUrlRef,
                    liveOp, activeHistory, errorOf>>

(***************************************************************************)
(* LIVE SCREEN                                                             *)
(***************************************************************************)
VARIABLES
  liveSources,           \* useState: the live sources of the backend, by key
  selectedSourceKey,     \* useState ("" = none)
  channelCache,          \* useState: the channels fetched per source
  channels,              \* useState: the channels shown
  groupedChannels,       \* useState: the channels per group name
  channelGroups,         \* useState: the group names in the order shown
  selectedGroup,         \* useState ("" = none)
  favoriteMap,           \* useState: the favorite keys that are set
  loadError,             \* useState ("" = none)
  currentChannelIndex,   \* useState
  screenIsLoading,       \* useState isLoading
  channelTitle,          \* useState (NoTitle = null)
  titleTimer,            \* whether the timer of showChannelTitle is pending
  effectDeps,            \* the effect on [selectedSourceKey, channelCache]: the key of its
                         \* last run, and whether channelCache is still the object of that run
  screenRuns,            \* the async calls suspended at an await
  liveFavorites,         \* LiveFavoriteManager: the stored favorite keys
  screenOp               \* history: the handler that ran last

screenVars == <<liveSources, selectedSourceKey, channelCache, channels, groupedChannels,
                channelGroups, selectedGroup, favoriteMap, loadError, currentChannelIndex,
                screenIsLoading, channelTitle, titleTimer, effectDeps, screenRuns,
                liveFavorites, screenOp>>

liveVars == <<controllerVars, screenVars>>

(***************************************************************************)
(* Applications of the functions of services/m3u.ts.                       *)
(***************************************************************************)
VARIABLES
  candCall,              \* a call of getPlaybackUrlCandidates: its arguments and its result
  filterCall,            \* a call of filterAndNormalizeMediaPlaylist, likewise
  engineCall,            \* a call of createDiscontinuityFilteredM3u8Url: where it is
                         \* suspended, what it has done so far and its outcome
  disk,                  \* playlist URLs whose filtered file exists in the cache directory
  web                    \* the responses of the network to the URLs the call fetches

engineVars == <<engineCall, disk, web>>

(***************************************************************************)
(* Collaborators of the player store: the detail store's search results,   *)
(* the persisted resume records and settings, the render engine, the clock.*)
(***************************************************************************)
VARIABLES
  searchResults,         \* detail store: episode URLs of the title per source
  playRecords,           \* PlayRecordManager: the stored resume record per source
  playerSettings,        \* PlayerSettingsManager: the stored settings per source
  engineEpisode,         \* render engine: index of the episode whose media it is playing
  now,                   \* clock, in ticks
  saveTimers             \* pending timers of _savePlayRecord, by their due time

envVars == <<searchResults, playRecords, playerSettings, engineEpisode, now, saveTimers>>

(***************************************************************************)
(* Playback state of the player store.                                     *)
(***************************************************************************)
VARIABLES
  status,                \* last AVPlaybackStatus taken over (NoStatus = null)
  progressPosition,      \* fraction, kept as <<positionMillis, durationMillis>>
  seekPosition,          \* fraction, kept as <<positionMillis, durationMillis>>
  initialPosition,
  playbackRate,          \* in tenths: 10 is 1.0
  introEndTime,          \* NoTime = undefined
  outroStartTime,        \* NoTime = undefined
  showNextEpisodeOverlay,
  shownModals,           \* the flags among showControls, showEpisodeModal, showSourceModal,
                         \* showSpeedModal that are true
  isSeeking,
  isRecordSaveThrottled, \* _isRecordSaveThrottled
  playOp                 \* history: the playback handler that ran last, with its pre-state

playbackVars == <<status, progressPosition, seekPosition, initialPosition, playbackRate,
                  introEndTime, outroStartTime, showNextEpisodeOverlay, shownModals,
                  isSeeking, isRecordSaveThrottled, playOp>>

auxVars == <<candCall, filterCall, engineVars, envVars, playbackVars>>

vars == <<liveVars, vodVars, auxVars>>

NoUrl == "null"
StreamUrls == {"X", "X2"}
FallbackUrls == {"Y"}
NoMessage == "null"
MsgSwitched == "switched-to-direct"
MsgDirect == "direct-route"

\* AVPlaybackStatus shapes that handlePlaybackStatusUpdate distinguishes
LiveStatuses == {"playing", "buffering", "paused", "error", "unloaded"}

TimerIds == 1..MaxTimers

LiveOpRec(name, threw) ==
  [name |-> name, preSwitched |-> hasSwitchedRef, preFallback |-> fallbackStreamUrlRef,
   preActive |-> activeStreamUrl, preHistory |-> activeHistory, preTimers |-> timers,
   threw |-> threw]

\* variant of ClearTimeoutRef in which the pending timer is left alone
ClearTimeoutRefOmitted(ts) == ts

\* clearTimeout(timeoutRef.current) guarded by if (timeoutRef.current)
ClearTimeoutRef(ts) == IF timeoutRef # 0 THEN ts \ {timeoutRef} ELSE ts

\* the handle setTimeout returns: any handle that is not pending
FreshTimer(ts) == CHOOSE t \in TimerIds : t \notin ts /\ \A u \in TimerIds : u \notin ts => t <= u

CanArm(ts) == \E t \in TimerIds : t \notin ts

\* variant of startTimeout that arms a new timer without cancelling the pending one
startTimeoutKeepsPending ==
  /\ CanArm(timers)
  /\ timeoutRef' = FreshTimer(timers)
  /\ timers' = timers \cup {FreshTimer(timers)}

\* startTimeout: cancels the timer held in timeoutRef and arms a new one
startTimeout ==
  /\ CanArm(ClearTimeoutRef(timers))
  /\ timeoutRef' = FreshTimer(ClearTimeoutRef(timers))
  /\ timers' = ClearTimeoutRef(timers) \cup {FreshTimer(ClearTimeoutRef(timers))}

CanSwitch == ~hasSwitchedRef /\ fallbackStreamUrlRef # NoUrl

\* switchToFallback, the branch that returns true
switchToFallback ==
  /\ CanSwitch
  /\ hasSwitchedRef' = TRUE
  /\ activeStreamUrl' = fallbackStreamUrlRef
  /\ statusMessage' = MsgSwitched
  /\ liveIsLoading' = TRUE
  /\ isTimeout' = FALSE
  /\ startTimeout
  /\ activeHistory' = Append(activeHistory, fallbackStreamUrlRef)

\* the <Video> is rendered only with an active URL and without the timeout screen
VideoMounted == activeStreamUrl # NoUrl /\ ~isTimeout

\* useEffect on [streamUrl, fallbackStreamUrl]: cleanup of the previous run, then the body
StreamUrlEffect(s, f) ==
  /\ <<s, f>> # <<streamUrl, fallbackStreamUrl>>
  /\ streamUrl' = s
  /\ fallbackStreamUrl' = f
  /\ hasSwitchedRef' = FALSE
  /\ isTimeout' = FALSE
  /\ statusMessage' = NoMessage
  /\ IF s # NoUrl
       THEN /\ fallbackStreamUrlRef' = f
            /\ activeStreamUrl' = s
            /\ liveIsLoading' = TRUE
            /\ startTimeout
       ELSE /\ fallbackStreamUrlRef' = NoUrl
            /\ activeStreamUrl' = NoUrl
            /\ liveIsLoading' = FALSE
            /\ timers' = ClearTimeoutRef(timers)
            /\ UNCHANGED timeoutRef
  /\ activeHistory' = <<s>>
  /\ liveOp' = LiveOpRec("streamUrlEffect", FALSE)
  /\ UNCHANGED <<errorOf, screenVars, vodVars, auxVars>>

\* the callback given to setTimeout in startTimeout
TimerFire(t) ==
  /\ t \in timers
  /\ timers' = timers \ {t}
  /\ IF CanSwitch
       THEN \* hasSwitchedRef.current = true; then setHasSwitchedToFallback(true), a name
            \* that is not declared anywhere: the call throws a ReferenceError and the
            \* rest of the callback does not run
            /\ hasSwitchedRef' = TRUE
            /\ UNCHANGED <<activeStreamUrl, statusMessage, liveIsLoading, isTimeout,
                           timeoutRef, activeHistory>>
            /\ liveOp' = LiveOpRec("timerFire", TRUE)
       ELSE /\ isTimeout' = TRUE
            /\ liveIsLoading' = FALSE
            /\ statusMessage' = NoMessage
            /\ UNCHANGED <<hasSwitchedRef, activeStreamUrl, timeoutRef, activeHistory>>
            /\ liveOp' = LiveOpRec("timerFire", FALSE)
  /\ UNCHANGED <<streamUrl, fallbackStreamUrl, fallbackStreamUrlRef, errorOf, screenVars,
                 vodVars, auxVars>>

\* handlePlaybackStatusUpdate of the live player
LiveStatusUpdate(st) ==
  /\ VideoMounted
  /\ CASE st = "playing" ->
            /\ timers' = ClearTimeoutRef(timers)
            /\ liveIsLoading' = FALSE
            /\ isTimeout' = FALSE
            /\ statusMessage' = IF hasSwitchedRef THEN MsgDirect ELSE NoMessage
            /\ UNCHANGED <<activeStreamUrl, timeoutRef, hasSwitchedRef, activeHistory>>
       [] st = "buffering" ->
            /\ liveIsLoading' = TRUE
            /\ UNCHANGED <<activeStreamUrl, isTimeout, statusMessage, timers, timeoutRef,
                           hasSwitchedRef, activeHistory>>
       [] st = "error" ->
            IF CanSwitch
              THEN switchToFallback
              ELSE /\ liveIsLoading' = FALSE
                   /\ isTimeout' = TRUE
                   /\ statusMessage' = NoMessage
                   /\ timers' = ClearTimeoutRef(timers)
                   /\ UNCHANGED <<activeStreamUrl, timeoutRef, hasSwitchedRef, activeHistory>>
       [] OTHER ->
            UNCHANGED <<activeStreamUrl, liveIsLoading, isTimeout, statusMessage, timers,
                        timeoutRef, hasSwitchedRef, activeHistory>>
  /\ liveOp' = LiveOpRec(st, FALSE)
  /\ UNCHANGED <<streamUrl, fallbackStreamUrl, fallbackStreamUrlRef, errorOf, screenVars,
                 vodVars, auxVars>>

\* the onError prop of the <Video>
LiveVideoOnError ==
  /\ VideoMounted
  /\ IF CanSwitch
       THEN switchToFallback
       ELSE /\ isTimeout' = TRUE
            /\ liveIsLoading' = FALSE
            /\ statusMessage' = NoMessage
            /\ UNCHANGED <<activeStreamUrl, timers, timeoutRef, hasSwitchedRef, activeHistory>>
  /\ liveOp' = LiveOpRec("onError", FALSE)
  /\ UNCHANGED <<streamUrl, fallbackStreamUrl, fallbackStreamUrlRef, errorOf, screenVars,
                 vodVars, auxVars>>

\* variant of cleanupTimers that leaves the pending timer alone
cleanupTimersOmitted(ts) == ts

\* the cleanup returned by the effect: if (timeoutRef.current) clearTimeout(...)
cleanupTimers(ts) == ClearTimeoutRef(ts)

\* the component is torn down: React runs the cleanup of the effect
Unmount ==
  /\ liveOp.name # "unmount"
  /\ timers' = cleanupTimers(timers)
  /\ liveOp' = LiveOpRec("unmount", FALSE)
  /\ UNCHANGED <<streamUrl, fallbackStreamUrl, activeStreamUrl, liveIsLoading, isTimeout,
                 statusMessage, timeoutRef, hasSwitchedRef, fallbackStreamUrlRef,
                 activeHistory, errorOf, screenVars, vodVars, auxVars>>

\* ---- live screen: its data and its initial state --------------------------
MaxRuns == 2

LiveSourceOrder == <<"S1", "S2">>
LiveSourceKeys == {LiveSourceOrder[i] : i \in 1..Len(LiveSourceOrder)}
NoSourceKey == ""
NoTitle == "null"
NoLoadError == ""

\* a channel as the backend lists it; tvgId and group may be missing ("")
Channel(id, tvgId, group, scheme) ==
  [id |-> id, tvgId |-> tvgId, name |-> id, group |-> group,
   url |-> [scheme |-> scheme, path |-> id]]
NoChannel == Channel("", "", "", "")

\* api.getLiveChannels(sourceKey)
ServerChannels ==
  [s \in LiveSourceKeys |->
     IF s = "S1" THEN <<Channel("c1", "t1", "News", "http"), Channel("c2", "", "", "https")>>
                 ELSE <<Channel("d1", "", "News", "http"), Channel("d2", "", "Sport", "rtp")>>]

\* an entry of channelCache; hit = FALSE is a missing key
NoEntry == [hit |-> FALSE, channels |-> <<>>]
Entry(chs) == [hit |-> TRUE, channels |-> chs]

ScreenInit ==
  /\ liveSources = <<>>
  /\ selectedSourceKey = NoSourceKey
  /\ channelCache = [s \in LiveSourceKeys |-> NoEntry]
  /\ channels = <<>>
  /\ groupedChannels = <<>>
  /\ channelGroups = <<>>
  /\ selectedGroup = ""
  /\ favoriteMap = {}
  /\ loadError = NoLoadError
  /\ currentChannelIndex = 0
  /\ screenIsLoading = FALSE
  /\ channelTitle = NoTitle
  /\ titleTimer = FALSE
  /\ effectDeps = [key |-> NoSourceKey, sameCache |-> TRUE]
  /\ screenRuns = {}
  /\ liveFavorites = {}
  /\ screenOp = [name |-> "mount"]

LiveInit ==
  /\ ScreenInit
  /\ streamUrl = NoUrl
  /\ fallbackStreamUrl = NoUrl
  /\ activeStreamUrl = NoUrl
  /\ liveIsLoading = FALSE
  /\ isTimeout = FALSE
  /\ statusMessage = NoMessage
  /\ timers = {}
  /\ timeoutRef = 0
  /\ hasSwitchedRef = FALSE
  /\ fallbackStreamUrlRef = NoUrl
  /\ liveOp = [name |-> "mount", preSwitched |-> FALSE, preFallback |-> NoUrl,
               preActive |-> NoUrl, preHistory |-> <<>>, preTimers |-> {}, threw |-> FALSE]
  /\ activeHistory = <<NoUrl>>
  /\ errorOf = NoUrl

LiveNext ==
  \/ \E s \in StreamUrls \cup {NoUrl}, f \in FallbackUrls \cup {NoUrl} : StreamUrlEffect(s, f)
  \/ \E t \in TimerIds : TimerFire(t)
  \/ \E st \in LiveStatuses : LiveStatusUpdate(st)
  \/ LiveVideoOnError


(***************************************************************************)
(* URLS AND CANDIDATE RESOLUTION (services/m3u.ts)                         *)
(***************************************************************************)
\* A URL is kept by the parts the code looks at: the scheme tested by isHttpLiveUrl,
\* the extension tested by isM3u8LiveUrl, the path, and for a proxy URL the
\* normalised backend and the source key it was built with.  kind tells a catalog
\* URL ("raw") from the two proxy forms and from a local cache file ("local", whose
\* field of is the kind of the URL it was built from).
MkUrl(kind, of, base, scheme, path, ext, src) ==
  [kind |-> kind, of |-> of, base |-> base, scheme |-> scheme, path |-> path,
   ext |-> ext, src |-> src]

EmptyBase == [scheme |-> "", host |-> "", slash |-> FALSE]

Raw(scheme, path, ext) == MkUrl("raw", "", EmptyBase, scheme, path, ext, "")
\* the empty string
EmptyUrl == Raw("", "", "")
\* the value of an array read outside the array, and of an absent argument
Undefined == MkUrl("undefined", "", EmptyBase, "", "", "", "")

\* Boolean(url)
Truthy(u) == u # Undefined /\ u # EmptyUrl

\* /^https?:\/\//i.test(url)
isHttpLiveUrl(u) ==
  /\ Truthy(u)
  /\ CASE u.kind = "raw" -> u.scheme \in {"http", "https"}
       [] u.kind \in {"modern", "legacy"} -> u.base.scheme \in {"http", "https"}
       [] OTHER -> FALSE

\* variant of isM3u8LiveUrl that takes every URL for a playlist
isM3u8LiveUrlAlways(u) == Truthy(u)

\* /\.m3u8($|\?)/i.test(url): in a proxy URL the encoded original is followed by
\* "&...", in a cache file name the extension ends the string
isM3u8LiveUrl(u) ==
  /\ Truthy(u)
  /\ CASE u.kind = "raw" -> u.ext = "m3u8"
       [] u.kind = "local" -> TRUE
       [] OTHER -> FALSE

\* apiBaseUrl.replace(/\/$/, "")
normalizeApiBaseUrl(b) == [b EXCEPT !.slash = FALSE]

\* Array.from(new Set(seq)): first occurrences, in order
RECURSIVE Dedup(_)
Dedup(seq) ==
  IF seq = <<>> THEN <<>>
  ELSE LET init == Dedup(SubSeq(seq, 1, Len(seq) - 1))
           last == seq[Len(seq)]
       IN IF \E i \in 1..Len(init) : init[i] = last THEN init ELSE Append(init, last)

\* seq.filter(Boolean)
FilterTruthy(seq) == SelectSeq(seq, Truthy)

modernProxyUrl(u, b, src) ==
  MkUrl("modern", "", normalizeApiBaseUrl(b), u.scheme, u.path, u.ext, src)
legacyProxyUrl(u, b, src) ==
  MkUrl("legacy", "", normalizeApiBaseUrl(b), u.scheme, u.path, u.ext, src)

\* variant of getAdFilteredM3u8Candidates that lists the legacy form first
getAdFilteredM3u8CandidatesLegacyFirst(originalUrl, baseUrl, sourceKey) ==
  IF ~Truthy(originalUrl) \/ baseUrl = EmptyBase \/ sourceKey = "" THEN <<>>
  ELSE IF ~isHttpLiveUrl(originalUrl) \/ ~isM3u8LiveUrl(originalUrl) THEN <<>>
  ELSE Dedup(<<legacyProxyUrl(originalUrl, baseUrl, sourceKey),
               modernProxyUrl(originalUrl, baseUrl, sourceKey)>>)

getAdFilteredM3u8Candidates(originalUrl, baseUrl, sourceKey) ==
  IF ~Truthy(originalUrl) \/ baseUrl = EmptyBase \/ sourceKey = "" THEN <<>>
  ELSE IF ~isHttpLiveUrl(originalUrl) \/ ~isM3u8LiveUrl(originalUrl) THEN <<>>
  ELSE Dedup(<<modernProxyUrl(originalUrl, baseUrl, sourceKey),
               legacyProxyUrl(originalUrl, baseUrl, sourceKey)>>)

\* variant of getPlaybackUrlCandidates that leaves the original URL out
getPlaybackUrlCandidatesProxiesOnly(originalUrl, baseUrl, sourceKey, adBlockEnabled) ==
  LET adFilteredCandidates == getAdFilteredM3u8Candidates(originalUrl, baseUrl, sourceKey)
      prioritizedAdFilteredCandidates ==
        IF Len(adFilteredCandidates) > 1
          THEN <<adFilteredCandidates[2], adFilteredCandidates[1]>>
          ELSE adFilteredCandidates
  IN Dedup(FilterTruthy(prioritizedAdFilteredCandidates))

getPlaybackUrlCandidates(originalUrl, baseUrl, sourceKey, adBlockEnabled) ==
  LET fallbackCandidates == IF Truthy(originalUrl) THEN <<originalUrl>> ELSE <<>>
      adFilteredCandidates == getAdFilteredM3u8Candidates(originalUrl, baseUrl, sourceKey)
      prioritizedAdFilteredCandidates ==
        IF Len(adFilteredCandidates) > 1
          THEN <<adFilteredCandidates[2], adFilteredCandidates[1]>>
          ELSE adFilteredCandidates
      orderedCandidates ==
        IF adBlockEnabled
          THEN prioritizedAdFilteredCandidates \o fallbackCandidates
          ELSE fallbackCandidates \o prioritizedAdFilteredCandidates
  IN Dedup(FilterTruthy(orderedCandidates))

\* ---- media playlists -----------------------------------------------------

\* A playlist is the sequence of its lines (split(/\r?\n/)).  A line is kept by what
\* the filter looks at: a tag line is its text up to the attributes, in parts, so that
\* one text can start with another (#EXT-X-DISCONTINUITY and
\* #EXT-X-DISCONTINUITY-SEQUENCE), and its attributes: none, plain values, or a URI
\* that is relative, absolute as written ("abs") or absolute in the serialised form
\* URL.toString() gives ("norm"); a segment line is such a reference; pad: the line
\* has surrounding white space.
TagLine(name, attr, pad) ==
  [kind |-> "tag", name |-> name, attr |-> attr, ref |-> "", path |-> "", pad |-> pad]
SegmentLine(ref, path, pad) ==
  [kind |-> "segment", name |-> <<>>, attr |-> "", ref |-> ref, path |-> path, pad |-> pad]
BlankLine == [kind |-> "blank", name |-> <<>>, attr |-> "", ref |-> "", path |-> "", pad |-> FALSE]
HeaderLine == TagLine(<<"#EXTM3U">>, "", FALSE)

AD_MARKER_TAGS ==
  {"#EXT-X-DISCONTINUITY", "#EXT-X-CUE-OUT", "#EXT-X-CUE-IN", "#EXT-OATCLS-SCTE35",
   "#EXT-X-SCTE35"}

\* rawLine.trim()
trim(line) == [line EXCEPT !.pad = FALSE]

\* line.startsWith(tag) for a tag without a colon
startsWithTag(line, tag) == line.kind = "tag" /\ line.name[1] = tag

shouldFilterTag(line) == \E tag \in AD_MARKER_TAGS : startsWithTag(line, tag)

\* line.startsWith("#EXT-X-MAP:") || line.startsWith("#EXT-X-KEY:")
startsWithKeyOrMap(line) ==
  /\ line.kind = "tag"
  /\ line.name \in {<<"#EXT-X-MAP">>, <<"#EXT-X-KEY">>}
  /\ line.attr # ""

\* new URL(inputUrl, baseUrl).toString(), the input itself when that throws (a base
\* URL that does not parse)
resolveRef(baseOk, ref) == IF baseOk THEN "norm" ELSE ref

rewriteUriAttribute(line, baseOk) ==
  CASE line.attr = "uri-rel" -> [line EXCEPT !.attr = "uri-" \o resolveRef(baseOk, "rel")]
    [] line.attr = "uri-abs" -> [line EXCEPT !.attr = "uri-" \o resolveRef(baseOk, "abs")]
    [] line.attr = "uri-norm" -> [line EXCEPT !.attr = "uri-" \o resolveRef(baseOk, "norm")]
    [] OTHER -> line

\* one kept line as it is pushed to normalizedLines
normalizeLine(line, baseOk) ==
  IF startsWithKeyOrMap(line) THEN rewriteUriAttribute(line, baseOk)
  ELSE IF line.kind = "tag" THEN line
  ELSE [line EXCEPT !.ref = resolveRef(baseOk, line.ref)]

lacksHeaderAlways(normalizedLines) == TRUE
\* !normalizedLines[0]?.startsWith("#EXTM3U")
lacksHeader(normalizedLines) ==
  ~(Len(normalizedLines) > 0 /\ startsWithTag(normalizedLines[1], "#EXTM3U"))

filterAndNormalizeMediaPlaylist(lines, baseOk) ==
  LET trimmed == [i \in 1..Len(lines) |-> trim(lines[i])]
      kept == SelectSeq(trimmed, LAMBDA l : l.kind # "blank" /\ ~shouldFilterTag(l))
      normalizedLines == [i \in 1..Len(kept) |-> normalizeLine(kept[i], baseOk)]
  IN IF lacksHeader(normalizedLines)
       THEN <<HeaderLine>> \o normalizedLines
       ELSE normalizedLines

\* ---- master playlists ----------------------------------------------------

\* a #EXT-X-STREAM-INF line with its attribute list in the order written, as
\* <<name, value>> pairs
StreamInfLine(attrs, pad) ==
  [kind |-> "tag", name |-> <<"#EXT-X-STREAM-INF">>, attr |-> "list", ref |-> "", path |-> "",
   pad |-> pad, attrs |-> attrs]

\* text.includes(tag), for a tag text that occurs in tag lines only
includesTag(lines, tag) == \E i \in 1..Len(lines) : startsWithTag(lines[i], tag)

\* the attribute names in which /BANDWIDTH=(\d+)/i finds a match
MatchesBandwidthPattern(attrName) == attrName \in {"BANDWIDTH", "AVERAGE-BANDWIDTH"}

\* line.match(/BANDWIDTH=(\d+)/i): the number of the first match in the line, 0 when
\* there is none
bandwidthMatch(line) ==
  LET hits == {i \in 1..Len(line.attrs) : MatchesBandwidthPattern(line.attrs[i][1])}
  IN IF hits = {} THEN 0
     ELSE line.attrs[CHOOSE i \in hits : \A j \in hits : i <= j][2]

\* the inner loop of parseVariantPlaylistUrls: the index of the first line from j on
\* that is not blank, if it is not a tag line; 0 otherwise
RECURSIVE variantUriIndex(_, _)
variantUriIndex(lines, j) ==
  IF j > Len(lines) THEN 0
  ELSE IF trim(lines[j]).kind = "blank" THEN variantUriIndex(lines, j + 1)
  ELSE IF trim(lines[j]).kind = "tag" THEN 0
  ELSE j

\* the variants in the order of the playlist, from line i on
RECURSIVE variantsFrom(_, _)
variantsFrom(lines, i) ==
  IF i > Len(lines) THEN <<>>
  ELSE LET n == variantUriIndex(lines, i + 1)
       IN IF startsWithTag(trim(lines[i]), "#EXT-X-STREAM-INF") /\ n # 0
            THEN <<[url |-> lines[n].path, bandwidth |-> bandwidthMatch(lines[i])]>>
                   \o variantsFrom(lines, i + 1)
            ELSE variantsFrom(lines, i + 1)

\* variants.sort((a, b) => b.bandwidth - a.bandwidth), a stable sort
RECURSIVE sortByBandwidth(_)
sortByBandwidth(variants) ==
  IF variants = <<>> THEN <<>>
  ELSE LET front == sortByBandwidth(SubSeq(variants, 1, Len(variants) - 1))
           v == variants[Len(variants)]
           k == Cardinality({i \in 1..Len(front) : front[i].bandwidth >= v.bandwidth})
       IN SubSeq(front, 1, k) \o <<v>> \o SubSeq(front, k + 1, Len(front))

parseVariantPlaylistUrls(lines) == sortByBandwidth(variantsFrom(lines, 1))

\* the cache file createDiscontinuityFilteredM3u8Url writes for a playlist URL
LocalFile(u) == MkUrl("local", u.kind, u.base, u.scheme, u.path, u.ext, u.src)

(***************************************************************************)
(* PLAYER STORE, DETAIL STORE AND VIDEO HANDLERS                           *)
(***************************************************************************)

\* the catalog: search results of the title, per source, in result order; source A has
\* a playlist episode and an episode without a URL, source B a single file episode
SourceOrder == <<"A", "B">>
Sources == {"A", "B"}
NoDetail == "none"
Catalog ==
  [s \in Sources |->
     CASE s = "A" -> <<Raw("http", "a0", "m3u8"), EmptyUrl>>
       [] OTHER -> <<Raw("https", "b0", "mp4")>>]

ApiBases == {EmptyBase, [scheme |-> "http", host |-> "api", slash |-> TRUE]}

\* array[i] with a 0-based index
At(seq, i) == IF i >= 0 /\ i < Len(seq) THEN seq[i + 1] ELSE Undefined

NoEpisode ==
  [url |-> Undefined, rawUrl |-> Undefined, title |-> 0, urlCandidates |-> <<>>,
   currentCandidateIndex |-> 0]

\* episodes[i] with a 0-based index
EpisodeAt(eps, i) == IF i >= 0 /\ i < Len(eps) THEN eps[i + 1] ELSE NoEpisode

mapEpisode(episodeUrl, index, sourceKey, base, adBlock) ==
  LET playbackCandidates == getPlaybackUrlCandidates(episodeUrl, base, sourceKey, adBlock)
      uniqueCandidates == Dedup(FilterTruthy(Append(playbackCandidates, episodeUrl)))
  IN [url |-> IF Truthy(At(uniqueCandidates, 0)) THEN At(uniqueCandidates, 0) ELSE episodeUrl,
      rawUrl |-> episodeUrl,
      title |-> index + 1,
      urlCandidates |-> uniqueCandidates,
      currentCandidateIndex |-> 0]

mapEpisodesForPlayback(episodeUrls, sourceKey) ==
  [i \in 1..Len(episodeUrls) |->
     mapEpisode(episodeUrls[i], i - 1, sourceKey, apiBaseUrl, vodAdBlockEnabled)]

\* detail store: episodesSelectorBySource(source)(state)
episodesSelectorBySource(s) == IF s \in Sources THEN searchResults[s] ELSE <<>>

\* detail store: getNextAvailableSource(currentSource, episodeIndex)
getNextAvailableSource(failed, currentSource, episodeIndex) ==
  LET ok(i) == /\ SourceOrder[i] # currentSource
               /\ SourceOrder[i] \notin failed
               /\ Len(searchResults[SourceOrder[i]]) > episodeIndex
  IN IF \E i \in 1..Len(SourceOrder) : ok(i)
       THEN SourceOrder[CHOOSE i \in 1..Len(SourceOrder) :
                          ok(i) /\ \A j \in 1..Len(SourceOrder) : ok(j) => i <= j]
       ELSE NoDetail

\* selectCurrentEpisode: the episode handed to the video handlers
selectCurrentEpisode(eps, idx) ==
  IF Len(eps) > 0 /\ idx >= 0 /\ idx < Len(eps) /\ Truthy(eps[idx + 1].url)
    THEN eps[idx + 1] ELSE NoEpisode

VodOpRec(name, ret) == [name |-> name, ret |-> ret]
\* the handlers whose outcome is visible in the state they leave
OtherOp == VodOpRec("other", "ok")

NoCall == [pc |-> "idle", episodeIndex |-> 0, detail |-> NoDetail]

\* ---- playback state -----------------------------------------------------

\* undefined as the value of introEndTime / outroStartTime, and of an absent number
NoTime == -1
\* Boolean(t) of an optional number
TruthyTime(t) == t # NoTime /\ t # 0

\* an AVPlaybackStatus by the fields the store reads; durationMillis 0 stands for a
\* duration that is not known
MkStatus(isLoaded, error, positionMillis, durationMillis, didJustFinish) ==
  [isLoaded |-> isLoaded, error |-> error, positionMillis |-> positionMillis,
   durationMillis |-> durationMillis, didJustFinish |-> didJustFinish]
\* status: null
NoStatus == MkStatus(FALSE, FALSE, NoTime, NoTime, FALSE)

\* positionMillis / durationMillis as a fraction in lowest terms is not needed: the
\* store only stores it, and the properties only compare it with 0
Frac(positionMillis, durationMillis) ==
  IF durationMillis # 0 THEN <<positionMillis, durationMillis>> ELSE <<0, 1>>
FracZero == <<0, 1>>
IsZeroFrac(f) == f[1] = 0

\* the stored resume record by the fields _savePlayRecord writes and loadVideo reads
MkRecord(exists, index, play_time, total_time, intro, outro) ==
  [exists |-> exists, index |-> index, play_time |-> play_time, total_time |-> total_time,
   introEndTime |-> intro, outroStartTime |-> outro]
NoRecord == MkRecord(FALSE, 0, 0, 0, NoTime, NoTime)
\* no stored playback rate; rates are in tenths (10 is 1.0)
NoRate == 0
NoSettings == [playbackRate |-> NoRate, introEndTime |-> NoTime, outroStartTime |-> NoTime]

\* the history record of the playback handlers: the handler that ran last, the status
\* it was given, the branch it took, whether it wrote the resume record and when, the
\* time of the last throttled write before it, the episode the render engine plays
\* when an outro crossing has advanced and only status updates have run since (-1:
\* none), and the fields of the state it ran in.  NoPlayOp: no history is kept;
\* a history that starts with FirstPlayName keeps the handler's name only
NoPlayOp == [name |-> "untracked"]
FirstPlayName == [name |-> "create"]
PlayOpRec(name, newStatus, branch, wrote) ==
  IF playOp = NoPlayOp THEN NoPlayOp
  ELSE IF DOMAIN playOp = {"name"} THEN [name |-> name]
  ELSE [name |-> name, newStatus |-> newStatus, branch |-> branch, wrote |-> wrote,
        at |-> now,
        prevWrite |-> IF playOp.wrote = "throttled" THEN playOp.at ELSE playOp.prevWrite,
        tailOf |-> IF name # "statusUpdate" THEN -1
                   ELSE IF branch = "outro" /\ playOp.tailOf = -1 THEN engineEpisode
                   ELSE playOp.tailOf,
        preTail |-> playOp.tailOf,
        preIndex |-> currentEpisodeIndex, preLen |-> Len(episodes),
        preOutro |-> outroStartTime, preThrottled |-> isRecordSaveThrottled,
        preEngine |-> engineEpisode]
FirstPlayOp ==
  [name |-> "create", newStatus |-> NoStatus, branch |-> "none", wrote |-> "none",
   at |-> 0, prevWrite |-> NoTime, tailOf |-> -1, preTail |-> -1,
   preIndex |-> -1, preLen |-> 0, preOutro |-> NoTime, preThrottled |-> FALSE,
   preEngine |-> -1]

\* the part of playEpisode(index) that runs before its await, on the fields it sets
\* besides currentEpisodeIndex
playEpisodeResets ==
  /\ showNextEpisodeOverlay' = FALSE
  /\ initialPosition' = 0
  /\ progressPosition' = FracZero
  /\ seekPosition' = FracZero

\* ---- player store -------------------------------------------------------

\* variant of nextCandidateUrl that reads one entry too far
nextCandidateUrlSkipsOne(currentEpisode) ==
  At(currentEpisode.urlCandidates, currentEpisode.currentCandidateIndex + 2)

\* tryFallbackUrl: urlCandidates[currentCandidateIndex + 1], undefined past the end
nextCandidateUrl(currentEpisode) ==
  At(currentEpisode.urlCandidates, currentEpisode.currentCandidateIndex + 1)

\* variant of tryFallbackUrlApplies without the test of the next candidate
tryFallbackUrlAppliesUnchecked(eps, idx, failedUrl) ==
  LET currentEpisode == EpisodeAt(eps, idx)
  IN /\ currentEpisode # NoEpisode
     /\ Truthy(failedUrl)
     /\ currentEpisode.url = failedUrl

\* tryFallbackUrl(failedUrl): whether it returns true
tryFallbackUrlApplies(eps, idx, failedUrl) ==
  LET currentEpisode == EpisodeAt(eps, idx)
  IN /\ currentEpisode # NoEpisode
     /\ Truthy(failedUrl)
     /\ currentEpisode.url = failedUrl
     /\ Truthy(nextCandidateUrl(currentEpisode))

\* variant of tryFallbackUrlEpisodes that advances the index and keeps the url
tryFallbackUrlEpisodesIndexOnly(eps, idx) ==
  LET currentEpisode == EpisodeAt(eps, idx)
      nextCandidateIndex == currentEpisode.currentCandidateIndex + 1
  IN [eps EXCEPT ![idx + 1] =
        [currentEpisode EXCEPT !.currentCandidateIndex = nextCandidateIndex]]

\* tryFallbackUrl(failedUrl): the episodes it sets when it returns true
tryFallbackUrlEpisodes(eps, idx) ==
  LET currentEpisode == EpisodeAt(eps, idx)
      nextCandidateIndex == currentEpisode.currentCandidateIndex + 1
  IN [eps EXCEPT ![idx + 1] =
        [currentEpisode EXCEPT !.url = nextCandidateUrl(currentEpisode),
                               !.currentCandidateIndex = nextCandidateIndex]]

\* prependCurrentEpisodeCandidate(candidateUrl, originalUrl)
prependApplies(eps, idx, candidateUrl, originalUrl) ==
  LET currentEpisode == EpisodeAt(eps, idx)
  IN /\ Truthy(candidateUrl)
     /\ currentEpisode # NoEpisode
     /\ ~(Truthy(originalUrl) /\ Truthy(currentEpisode.rawUrl)
          /\ currentEpisode.rawUrl # originalUrl)
     /\ ~(At(currentEpisode.urlCandidates, 0) = candidateUrl
          /\ currentEpisode.url = candidateUrl)

\* variant of prependEpisodes in which the injected URL replaces the candidate list
prependEpisodesReplacing(eps, idx, candidateUrl) ==
  LET currentEpisode == EpisodeAt(eps, idx)
  IN [eps EXCEPT ![idx + 1] =
        [currentEpisode EXCEPT !.url = candidateUrl,
                               !.urlCandidates = <<candidateUrl>>,
                               !.currentCandidateIndex = 0]]

\* prependCurrentEpisodeCandidate: the episodes it installs
prependEpisodes(eps, idx, candidateUrl) ==
  LET currentEpisode == EpisodeAt(eps, idx)
      keep(u) == u # candidateUrl
      nextCandidates == <<candidateUrl>> \o SelectSeq(currentEpisode.urlCandidates, keep)
  IN [eps EXCEPT ![idx + 1] =
        [currentEpisode EXCEPT !.url = candidateUrl,
                               !.urlCandidates = nextCandidates,
                               !.currentCandidateIndex = 0]]

\* playEpisode(index)
PlayEpisode(index) ==
  /\ index >= 0 /\ index < Len(episodes)
  /\ currentEpisodeIndex' = index
  /\ playEpisodeResets
  /\ vodOp' = OtherOp
  /\ playOp' = PlayOpRec("playEpisode", NoStatus, "none", "none")
  /\ UNCHANGED <<apiBaseUrl, vodAdBlockEnabled, detail, failedSources, episodes, isLoading,
                 loadCall, errorCalls, rendered, tasks,
                 filteredPlaylistCache,
                 liveVars, candCall, filterCall, engineVars, envVars, status, playbackRate,
                 introEndTime,
                 outroStartTime, shownModals, isSeeking, isRecordSaveThrottled>>

\* refreshEpisodeUrls()
RefreshEpisodeUrls ==
  /\ detail # NoDetail
  /\ Len(episodesSelectorBySource(detail)) > 0
  /\ LET mappedEpisodes == mapEpisodesForPlayback(episodesSelectorBySource(detail), detail)
         lastIndex == Len(mappedEpisodes) - 1
         clamped == IF currentEpisodeIndex < lastIndex THEN currentEpisodeIndex ELSE lastIndex
         safeEpisodeIndex == IF clamped > 0 THEN clamped ELSE 0
     IN /\ episodes' = mappedEpisodes
        /\ currentEpisodeIndex' = safeEpisodeIndex
  /\ vodOp' = OtherOp
  /\ UNCHANGED <<apiBaseUrl, vodAdBlockEnabled, detail, failedSources, isLoading, loadCall,
                 errorCalls, rendered, tasks, filteredPlaylistCache,
                 liveVars, auxVars>>

resetIsLoadingToggled(loading) == ~loading
\* reset: isLoading: true
resetIsLoading(loading) == TRUE

\* reset()
Reset ==
  /\ episodes' = <<>>
  /\ currentEpisodeIndex' = 0
  /\ isLoading' = resetIsLoading(isLoading)
  /\ status' = NoStatus
  /\ shownModals' = {}
  /\ showNextEpisodeOverlay' = FALSE
  /\ initialPosition' = 0
  /\ playbackRate' = 10
  /\ introEndTime' = NoTime
  /\ outroStartTime' = NoTime
  /\ vodOp' = OtherOp
  /\ playOp' = PlayOpRec("reset", NoStatus, "none", "none")
  /\ UNCHANGED <<apiBaseUrl, vodAdBlockEnabled, detail, failedSources, loadCall, errorCalls,
                 rendered, tasks, filteredPlaylistCache,
                 liveVars, candCall, filterCall, engineVars, envVars, progressPosition,
                 seekPosition, isSeeking,
                 isRecordSaveThrottled>>

\* loadVideo, up to its first await: the detail initialisation, or (with a cached
\* detail record of the same title that has episodes) the storage reads
LoadVideoStart(source, episodeIndex, sameTitle) ==
  /\ loadCall = NoCall
  /\ LET eps0 == IF detail # NoDetail THEN episodesSelectorBySource(detail)
                                      ELSE episodesSelectorBySource(source)
         needsDetailInit == detail = NoDetail \/ Len(eps0) = 0 \/ ~sameTitle
     IN loadCall' = IF needsDetailInit
                      THEN [pc |-> "init",
                            episodeIndex |-> episodeIndex, detail |-> NoDetail]
                      ELSE [pc |-> "storage",
                            episodeIndex |-> episodeIndex, detail |-> detail]
  /\ isLoading' = TRUE
  /\ vodOp' = OtherOp
  /\ UNCHANGED <<apiBaseUrl, vodAdBlockEnabled, detail, failedSources, episodes,
                 currentEpisodeIndex, errorCalls, rendered, tasks,
                 filteredPlaylistCache,
                 liveVars, auxVars>>

loadVideoTriesAgain == UNCHANGED <<isLoading, loadCall>>
\* loadVideo without a detail record or without episodes: set({isLoading: false}); return
loadVideoGivesUp ==
  /\ isLoading' = FALSE
  /\ loadCall' = NoCall

\* detail store init(title, source, id) completes with the detail record it selected
\* (none on failure); loadVideo continues up to the storage reads
LoadVideoInitDone(d) ==
  /\ loadCall.pc = "init"
  /\ detail' = d
  /\ failedSources' = {}
  /\ LET withEpisodes(i) == Len(searchResults[SourceOrder[i]]) > 0
         sourceWithEpisodes ==
           IF \E i \in 1..Len(SourceOrder) : withEpisodes(i)
             THEN SourceOrder[CHOOSE i \in 1..Len(SourceOrder) :
                                withEpisodes(i) /\ \A j \in 1..Len(SourceOrder) :
                                                     withEpisodes(j) => i <= j]
             ELSE NoDetail
         dLocal == IF d = NoDetail THEN NoDetail
                   ELSE IF Len(episodesSelectorBySource(d)) > 0 THEN d
                   ELSE sourceWithEpisodes
     IN IF dLocal = NoDetail
          THEN loadVideoGivesUp
          ELSE /\ loadCall' = [loadCall EXCEPT !.pc = "storage", !.detail = dLocal]
               /\ UNCHANGED isLoading
  /\ vodOp' = OtherOp
  /\ UNCHANGED <<apiBaseUrl, vodAdBlockEnabled, episodes, currentEpisodeIndex, errorCalls,
                 rendered, tasks, filteredPlaylistCache,
                 liveVars, auxVars>>

\* PlayRecordManager.get and PlayerSettingsManager.get settle; loadVideo installs the
\* episodes, or takes its catch branch when a read rejects
LoadVideoStorageDone(ok) ==
  /\ loadCall.pc = "storage"
  /\ loadCall' = NoCall
  /\ isLoading' = FALSE
  /\ IF ok
       THEN /\ episodes' = mapEpisodesForPlayback(episodesSelectorBySource(loadCall.detail),
                                                  loadCall.detail)
            /\ currentEpisodeIndex' = loadCall.episodeIndex
            /\ LET playRecord == playRecords[loadCall.detail]
                   settings == playerSettings[loadCall.detail]
               IN /\ initialPosition' = IF playRecord.play_time # 0
                                           THEN playRecord.play_time * 1000 ELSE 0
                  /\ playbackRate' = IF settings.playbackRate # NoRate
                                        THEN settings.playbackRate ELSE 10
                  /\ introEndTime' = IF TruthyTime(playRecord.introEndTime)
                                        THEN playRecord.introEndTime
                                        ELSE settings.introEndTime
                  /\ outroStartTime' = IF TruthyTime(playRecord.outroStartTime)
                                          THEN playRecord.outroStartTime
                                          ELSE settings.outroStartTime
       ELSE UNCHANGED <<episodes, currentEpisodeIndex, initialPosition, playbackRate,
                        introEndTime, outroStartTime>>
  /\ vodOp' = VodOpRec("loadVideo", IF ok THEN "loaded" ELSE "failed")
  /\ playOp' = PlayOpRec("loadVideo", NoStatus, "none", "none")
  /\ UNCHANGED <<apiBaseUrl, vodAdBlockEnabled, detail, failedSources, errorCalls,
                 rendered, tasks, filteredPlaylistCache,
                 liveVars, candCall, filterCall, engineVars, envVars, status, progressPosition,
                 seekPosition,
                 showNextEpisodeOverlay, shownModals, isSeeking, isRecordSaveThrottled>>

\* ---- video handlers -----------------------------------------------------

\* variant of isStaleError in which no callback is taken as stale
isStaleErrorNever(activeEpisode, u) == FALSE

\* onError: the callback's URL is no longer the active URL of the store's current episode
isStaleError(activeEpisode, u) == activeEpisode.url # u

\* variant of markCurrentSourceFailed that records nothing
markCurrentSourceFailedOmitted(failed, currentSource) == failed

\* handleVideoError: markSourceAsFailed(currentSource, errorReason)
markCurrentSourceFailed(failed, currentSource) == failed \cup {currentSource}

\* handleVideoError: the episodes installed for the fallback source
fallbackEpisodes(fallbackSource) ==
  mapEpisodesForPlayback(episodesSelectorBySource(fallbackSource), fallbackSource)

\* The render engine reports an error: onError(error) of the last committed render runs,
\* bound to that render's currentEpisode.url (rendered[2]), and with it handleVideoError
\* up to await setDetail.  The error classification (ssl / network / other) selects the
\* toast text and the reason string only.
OnError ==
  /\ LET u == rendered[2]
         activeEpisode == EpisodeAt(episodes, currentEpisodeIndex)
         failed == markCurrentSourceFailed(failedSources, detail)
         fallbackSource == getNextAvailableSource(failed, detail, currentEpisodeIndex)
     IN IF ~Truthy(u)
          THEN /\ vodOp' = OtherOp
               /\ UNCHANGED <<detail, failedSources, episodes, isLoading, errorCalls>>
        ELSE IF isStaleError(activeEpisode, u)
          THEN /\ vodOp' = VodOpRec("onError", "stale")
               /\ UNCHANGED <<detail, failedSources, episodes, isLoading, errorCalls>>
        ELSE IF tryFallbackUrlApplies(episodes, currentEpisodeIndex, u)
          THEN /\ episodes' = tryFallbackUrlEpisodes(episodes, currentEpisodeIndex)
               /\ isLoading' = FALSE
               /\ vodOp' = VodOpRec("onError", "switched")
               /\ UNCHANGED <<detail, failedSources, errorCalls>>
        ELSE IF detail = NoDetail
          THEN /\ isLoading' = FALSE
               /\ vodOp' = VodOpRec("onError", "noDetail")
               /\ UNCHANGED <<detail, failedSources, episodes, errorCalls>>
        ELSE IF fallbackSource = NoDetail
          THEN /\ failedSources' = failed
               /\ isLoading' = FALSE
               /\ vodOp' = VodOpRec("onError", "terminal")
               /\ UNCHANGED <<detail, episodes, errorCalls>>
        ELSE /\ failedSources' = failed
             /\ detail' = fallbackSource
             /\ errorCalls' = errorCalls \cup
                  {[fallbackSource |-> fallbackSource, episodeIndex |-> currentEpisodeIndex]}
             /\ Cardinality(errorCalls') <= MaxErrorCalls
             /\ vodOp' = VodOpRec("onError", "escalated")
             /\ UNCHANGED <<episodes, isLoading>>
  /\ UNCHANGED <<apiBaseUrl, vodAdBlockEnabled, currentEpisodeIndex, loadCall, rendered,
                 tasks, filteredPlaylistCache,
                 liveVars, auxVars>>

\* handleVideoError after await setDetail(fallbackSource)
HandleVideoErrorResume(call, ok) ==
  /\ call \in errorCalls
  /\ errorCalls' = errorCalls \ {call}
  /\ isLoading' = FALSE
  /\ LET newEpisodes == episodesSelectorBySource(call.fallbackSource)
     IN IF ok /\ Len(newEpisodes) > call.episodeIndex
          THEN /\ episodes' = fallbackEpisodes(call.fallbackSource)
               /\ vodOp' = VodOpRec("handleVideoError", "replaced")
          ELSE /\ UNCHANGED episodes
               /\ vodOp' = VodOpRec("handleVideoError", "kept")
  /\ UNCHANGED <<apiBaseUrl, vodAdBlockEnabled, detail, failedSources, currentEpisodeIndex,
                 loadCall, rendered, tasks, filteredPlaylistCache,
                 liveVars, auxVars>>

\* dependencies of the filtered-playlist effect in the current render
CurrentDeps ==
  <<selectCurrentEpisode(episodes, currentEpisodeIndex).rawUrl,
    selectCurrentEpisode(episodes, currentEpisodeIndex).url, vodAdBlockEnabled>>

Qualifies(u) == isHttpLiveUrl(u) /\ isM3u8LiveUrl(u)

\* The effect re-runs after a render with new dependencies: cleanup of the previous run
\* (canceled = true), then the body up to the first await of prepareFilteredPlaylist.
\* A run is kept as its identity URL, the build targets it has yet to await (the loop
\* skips the targets that are not HTTP(S) .m3u8 URLs) and its canceled flag.
FilteredPlaylistEffect ==
  /\ CurrentDeps # rendered
  /\ rendered' = CurrentDeps
  /\ LET rawUrl == CurrentDeps[1]
         url == CurrentDeps[2]
         episodeIdentityUrl == IF rawUrl # Undefined THEN rawUrl ELSE url
         buildTargets == Dedup(FilterTruthy(<<rawUrl, url>>))
         canceledTasks == {[t EXCEPT !.canceled = TRUE] : t \in tasks}
         awaited == SelectSeq(buildTargets, Qualifies)
     IN tasks' = IF vodAdBlockEnabled /\ Truthy(episodeIdentityUrl) /\ awaited # <<>>
                   THEN canceledTasks \cup {[identity |-> episodeIdentityUrl,
                                             targets |-> awaited, canceled |-> FALSE]}
                   ELSE canceledTasks
  /\ Cardinality(tasks') <= MaxTasks
  /\ vodOp' = OtherOp
  /\ UNCHANGED <<apiBaseUrl, vodAdBlockEnabled, detail, failedSources, episodes,
                 currentEpisodeIndex, isLoading, loadCall, errorCalls,
                 filteredPlaylistCache, liveVars, auxVars>>

\* createDiscontinuityFilteredM3u8Url(target) settles and prepareFilteredPlaylist runs
\* on to its next await or to its end.  built: whether a playlist that is not cached
\* could be fetched, filtered and written.
FilteredPlaylistReady(t, built) ==
  /\ t \in tasks
  /\ LET target == Head(t.targets)
         cached == target \in filteredPlaylistCache
         filteredUrl == IF cached \/ built THEN LocalFile(target) ELSE Undefined
         continued == IF Tail(t.targets) = <<>> THEN tasks \ {t}
                      ELSE (tasks \ {t}) \cup {[t EXCEPT !.targets = Tail(t.targets)]}
     IN /\ cached => built
        /\ filteredPlaylistCache' = IF built THEN filteredPlaylistCache \cup {target}
                                             ELSE filteredPlaylistCache
        /\ IF ~Truthy(filteredUrl) \/ t.canceled
             THEN /\ tasks' = continued
                  /\ vodOp' = VodOpRec("prepareFilteredPlaylist", "skipped")
                  /\ UNCHANGED <<episodes, isLoading>>
           ELSE IF prependApplies(episodes, currentEpisodeIndex, filteredUrl, t.identity)
             THEN /\ episodes' = prependEpisodes(episodes, currentEpisodeIndex, filteredUrl)
                  /\ isLoading' = FALSE
                  /\ tasks' = tasks \ {t}
                  /\ vodOp' = VodOpRec("prepareFilteredPlaylist", "inserted")
             ELSE /\ tasks' = continued
                  /\ vodOp' = VodOpRec("prepareFilteredPlaylist", "rejected")
                  /\ UNCHANGED <<episodes, isLoading>>
  /\ UNCHANGED <<apiBaseUrl, vodAdBlockEnabled, detail, failedSources, currentEpisodeIndex,
                 loadCall, errorCalls, rendered, liveVars,
                 auxVars>>

\* ---- playback handlers --------------------------------------------------

\* the store fields and collaborators no playback handler assigns
playbackFrame ==
  <<apiBaseUrl, vodAdBlockEnabled, detail, failedSources, episodes, isLoading, loadCall,
    errorCalls, rendered, tasks, filteredPlaylistCache, liveVars, candCall,
    filterCall, engineVars, searchResults>>

\* the throttle window of _savePlayRecord, 10000 ms, in clock ticks of 5 s
ThrottleTicks == 2
ThrottleDueAtOnce(t) == t
\* the time the timer set by a throttled save is due
ThrottleDue(t) == t + ThrottleTicks

\* _savePlayRecord reaches PlayRecordManager.save
SaveWrites(immediate) ==
  /\ immediate \/ ~isRecordSaveThrottled
  /\ detail # NoDetail
  /\ status.isLoaded
Wrote(immediate) ==
  IF SaveWrites(immediate) THEN (IF immediate THEN "immediate" ELSE "throttled") ELSE "none"

\* the record _savePlayRecord writes, from the store's status and the markers given
SavedRecord(intro, outro) ==
  MkRecord(TRUE, currentEpisodeIndex + 1, status.positionMillis \div 1000,
           IF status.durationMillis # 0 THEN status.durationMillis \div 1000 ELSE 0,
           intro, outro)

\* _savePlayRecord(updates, {immediate}) with the markers after updates are applied
savePlayRecord(immediate, intro, outro) ==
  /\ IF ~immediate /\ ~isRecordSaveThrottled
       THEN /\ isRecordSaveThrottled' = TRUE
            /\ saveTimers' = saveTimers \cup {ThrottleDue(now)}
       ELSE UNCHANGED <<isRecordSaveThrottled, saveTimers>>
  /\ playRecords' = IF SaveWrites(immediate)
                      THEN [playRecords EXCEPT ![detail] = SavedRecord(intro, outro)]
                      ELSE playRecords

\* positionMillis / durationMillis > 0.95
isNearEnd(positionMillis, durationMillis) == positionMillis * 100 > 95 * durationMillis

\* the status reports a position at or past the outro boundary
CrossesOutro(st, outro) ==
  /\ TruthyTime(outro)
  /\ st.durationMillis # 0
  /\ st.positionMillis >= st.durationMillis - outro

\* handlePlaybackStatusUpdate(newStatus); a loaded status comes from an engine that has
\* loaded an episode
PlaybackStatusUpdate(newStatus) ==
  LET idx == currentEpisodeIndex
      hasNext == idx < Len(episodes) - 1
      pos == newStatus.positionMillis
      dur == newStatus.durationMillis
      saves == detail # NoDetail /\ dur # 0
      finishes == newStatus.didJustFinish /\ hasNext
  IN /\ newStatus.isLoaded => engineEpisode # -1
     /\ vodOp' = OtherOp
     /\ IF ~newStatus.isLoaded
          THEN /\ status' = newStatus
               /\ playOp' = PlayOpRec("statusUpdate", newStatus, "unloaded", "none")
               /\ UNCHANGED <<currentEpisodeIndex, progressPosition, seekPosition,
                              initialPosition, showNextEpisodeOverlay,
                              isRecordSaveThrottled, saveTimers, playRecords>>
          ELSE IF CrossesOutro(newStatus, outroStartTime) /\ hasNext
          THEN /\ currentEpisodeIndex' = idx + 1
               /\ playEpisodeResets
               /\ playOp' = PlayOpRec("statusUpdate", newStatus, "outro", "none")
               /\ UNCHANGED <<status, isRecordSaveThrottled, saveTimers, playRecords>>
          ELSE /\ IF saves
                    THEN savePlayRecord(FALSE, introEndTime, outroStartTime)
                    ELSE UNCHANGED <<isRecordSaveThrottled, saveTimers, playRecords>>
               /\ showNextEpisodeOverlay' =
                    IF finishes THEN FALSE
                    ELSE IF saves
                      THEN isNearEnd(pos, dur) /\ hasNext /\ ~TruthyTime(outroStartTime)
                      ELSE showNextEpisodeOverlay
               /\ currentEpisodeIndex' = IF finishes THEN idx + 1 ELSE idx
               /\ initialPosition' = IF finishes THEN 0 ELSE initialPosition
               /\ seekPosition' = IF finishes THEN FracZero ELSE seekPosition
               /\ status' = newStatus
               /\ progressPosition' = Frac(pos, dur)
               /\ playOp' = PlayOpRec("statusUpdate", newStatus, "normal",
                                      IF saves THEN Wrote(FALSE) ELSE "none")
     /\ UNCHANGED <<playbackFrame, playerSettings, engineEpisode, now, playbackRate,
                    introEndTime, outroStartTime, shownModals, isSeeking>>

\* the Video component is given the current episode's URL as its source and loads it
EngineLoad ==
  /\ currentEpisodeIndex >= 0 /\ currentEpisodeIndex < Len(episodes)
  /\ engineEpisode # currentEpisodeIndex
  /\ engineEpisode' = currentEpisodeIndex
  /\ playOp' = PlayOpRec("engineLoad", NoStatus, "none", "none")
  /\ UNCHANGED <<vodVars, liveVars, candCall, filterCall, engineVars, searchResults,
                 playRecords, playerSettings,
                 now, saveTimers, status, progressPosition, seekPosition, initialPosition,
                 playbackRate, introEndTime, outroStartTime, showNextEpisodeOverlay,
                 shownModals, isSeeking, isRecordSaveThrottled>>

\* setIntroEndTime(): toggles the intro marker at the current position
SetIntroEndTime ==
  /\ vodOp' = OtherOp
  /\ IF ~status.isLoaded \/ detail = NoDetail
       THEN /\ playOp' = PlayOpRec("setIntroEndTime", status, "return", "none")
            /\ UNCHANGED <<introEndTime, isRecordSaveThrottled, saveTimers, playRecords>>
       ELSE LET newIntroEndTime == IF TruthyTime(introEndTime) THEN NoTime
                                   ELSE status.positionMillis
            IN /\ introEndTime' = newIntroEndTime
               /\ savePlayRecord(TRUE, newIntroEndTime, outroStartTime)
               /\ playOp' = PlayOpRec("setIntroEndTime", status, "toggle", Wrote(TRUE))
  /\ UNCHANGED <<playbackFrame, currentEpisodeIndex, playerSettings, engineEpisode, now,
                 status, progressPosition, seekPosition, initialPosition, playbackRate,
                 outroStartTime, showNextEpisodeOverlay, shownModals, isSeeking>>

\* setOutroStartTime(): toggles the outro marker at duration minus position
SetOutroStartTime ==
  /\ vodOp' = OtherOp
  /\ IF \/ ~status.isLoaded \/ detail = NoDetail
        \/ (~TruthyTime(outroStartTime) /\ status.durationMillis = 0)
       THEN /\ playOp' = PlayOpRec("setOutroStartTime", status, "return", "none")
            /\ UNCHANGED <<outroStartTime, isRecordSaveThrottled, saveTimers, playRecords>>
       ELSE LET newOutroStartTime == IF TruthyTime(outroStartTime) THEN NoTime
                                     ELSE status.durationMillis - status.positionMillis
            IN /\ outroStartTime' = newOutroStartTime
               /\ savePlayRecord(TRUE, introEndTime, newOutroStartTime)
               /\ playOp' = PlayOpRec("setOutroStartTime", status, "toggle", Wrote(TRUE))
  /\ UNCHANGED <<playbackFrame, currentEpisodeIndex, playerSettings, engineEpisode, now,
                 status, progressPosition, seekPosition, initialPosition, playbackRate,
                 introEndTime, showNextEpisodeOverlay, shownModals, isSeeking>>

Max(a, b) == IF a >= b THEN a ELSE b
Min(a, b) == IF a <= b THEN a ELSE b

\* seek(duration): moves the position by duration, clamped to the media
Seek(duration) ==
  /\ status.isLoaded /\ status.durationMillis # 0
  /\ LET newPosition == Max(0, Min(status.positionMillis + duration, status.durationMillis))
     IN seekPosition' = Frac(newPosition, status.durationMillis)
  /\ isSeeking' = TRUE
  /\ vodOp' = OtherOp
  /\ playOp' = PlayOpRec("seek", status, "none", "none")
  /\ UNCHANGED <<playbackFrame, currentEpisodeIndex, envVars, status, progressPosition,
                 initialPosition, playbackRate, introEndTime, outroStartTime,
                 showNextEpisodeOverlay, shownModals, isRecordSaveThrottled>>

\* the 1000 ms timer set by seek fires
SeekTimerFire ==
  /\ isSeeking
  /\ isSeeking' = FALSE
  /\ vodOp' = OtherOp
  /\ playOp' = PlayOpRec("seekTimer", status, "none", "none")
  /\ UNCHANGED <<playbackFrame, currentEpisodeIndex, envVars, status, progressPosition,
                 seekPosition, initialPosition, playbackRate, introEndTime, outroStartTime,
                 showNextEpisodeOverlay, shownModals, isRecordSaveThrottled>>

\* setPlaybackRate(rate) with setRateAsync and the settings save resolved
SetPlaybackRate(rate) ==
  /\ playbackRate' = rate
  /\ playerSettings' = IF detail # NoDetail
                         THEN [playerSettings EXCEPT ![detail].playbackRate = rate]
                         ELSE playerSettings
  /\ vodOp' = OtherOp
  /\ playOp' = PlayOpRec("setPlaybackRate", status, "none", "none")
  /\ UNCHANGED <<playbackFrame, currentEpisodeIndex, playRecords, engineEpisode, now,
                 saveTimers, status, progressPosition, seekPosition, initialPosition,
                 introEndTime, outroStartTime, showNextEpisodeOverlay, shownModals,
                 isSeeking, isRecordSaveThrottled>>

\* showControls, showEpisodeModal, showSourceModal, showSpeedModal as the set of the
\* flags that are true
Modals == {"controls", "episode", "source", "speed"}

\* setShowControls / setShowEpisodeModal / setShowSourceModal / setShowSpeedModal
SetShowModal(m, show) ==
  /\ shownModals' = IF show THEN shownModals \cup {m} ELSE shownModals \ {m}
  /\ vodOp' = OtherOp
  /\ playOp' = PlayOpRec("setShow", status, "none", "none")
  /\ UNCHANGED <<playbackFrame, currentEpisodeIndex, envVars, status, progressPosition,
                 seekPosition, initialPosition, playbackRate, introEndTime, outroStartTime,
                 showNextEpisodeOverlay, isSeeking, isRecordSaveThrottled>>

\* setShowNextEpisodeOverlay(show)
SetShowNextEpisodeOverlay(show) ==
  /\ showNextEpisodeOverlay' = show
  /\ vodOp' = OtherOp
  /\ playOp' = PlayOpRec("setShow", status, "none", "none")
  /\ UNCHANGED <<playbackFrame, currentEpisodeIndex, envVars, status, progressPosition,
                 seekPosition, initialPosition, playbackRate, introEndTime, outroStartTime,
                 shownModals, isSeeking, isRecordSaveThrottled>>

\* the clock advances by one tick
MaxNow == 5
Tick ==
  /\ now < MaxNow
  /\ now' = now + 1
  /\ UNCHANGED <<vodVars, liveVars, candCall, filterCall, engineVars, searchResults,
                 playRecords, playerSettings,
                 engineEpisode, saveTimers, playbackVars>>

\* the timer set by a throttled save fires, not before it is due
SaveTimerFire(t) ==
  /\ t \in saveTimers
  /\ now >= t
  /\ saveTimers' = saveTimers \ {t}
  /\ isRecordSaveThrottled' = FALSE
  /\ vodOp' = OtherOp
  /\ playOp' = PlayOpRec("saveTimer", status, "none", "none")
  /\ UNCHANGED <<playbackFrame, currentEpisodeIndex, playRecords, playerSettings,
                 engineEpisode, now, status, progressPosition, seekPosition,
                 initialPosition, playbackRate, introEndTime, outroStartTime,
                 showNextEpisodeOverlay, shownModals, isSeeking>>

VodInit ==
  /\ apiBaseUrl \in ApiBases
  /\ vodAdBlockEnabled \in BOOLEAN
  /\ detail = NoDetail
  /\ failedSources = {}
  /\ episodes = <<>>
  /\ currentEpisodeIndex = -1
  /\ isLoading = TRUE
  /\ loadCall = NoCall
  /\ errorCalls = {}
  /\ rendered = <<Undefined, Undefined, vodAdBlockEnabled>>
  /\ tasks = {}
  /\ filteredPlaylistCache = {}
  /\ vodOp = OtherOp

EpisodeIndexes == 0..1
\* episode indexes loadVideo is called with
LoadEpisodeIndexes == {0}

VodNext ==
  \/ \E src \in Sources, i \in LoadEpisodeIndexes, same \in BOOLEAN :
       LoadVideoStart(src, i, same)
  \/ \E d \in Sources \cup {NoDetail} : LoadVideoInitDone(d)
  \/ \E ok \in BOOLEAN : LoadVideoStorageDone(ok)
  \/ \E i \in EpisodeIndexes : PlayEpisode(i)
  \/ RefreshEpisodeUrls
  \/ Reset
  \/ OnError
  \/ \E c \in errorCalls, ok \in BOOLEAN : HandleVideoErrorResume(c, ok)
  \/ FilteredPlaylistEffect
  \/ \E t \in tasks, built \in BOOLEAN : FilteredPlaylistReady(t, built)

(***************************************************************************)
(* THE FILTER ENGINE: createDiscontinuityFilteredM3u8Url                   *)
(***************************************************************************)
\* responses of the network: the fetch fails (error, status not ok, timeout) or
\* delivers a playlist text
FetchFails == [ok |-> FALSE, text |-> <<>>]
Delivers(text) == [ok |-> TRUE, text |-> text]

ExtInfLine == TagLine(<<"#EXTINF">>, "value", FALSE)
MediaText(path) == <<HeaderLine, ExtInfLine, SegmentLine("rel", path, FALSE)>>
AdMediaText ==
  <<HeaderLine, ExtInfLine, SegmentLine("rel", "s0", FALSE),
    TagLine(<<"#EXT-X-DISCONTINUITY">>, "", FALSE), ExtInfLine, SegmentLine("rel", "ad", FALSE)>>
NoHeaderText == <<ExtInfLine, SegmentLine("rel", "s0", FALSE)>>
NoSegmentsText == <<HeaderLine, TagLine(<<"#EXT-X-ENDLIST">>, "", FALSE)>>
\* a master playlist with two variants, and one whose only variant line has no URI
MasterText(attrs1, attrs2) ==
  <<HeaderLine, StreamInfLine(attrs1, FALSE), SegmentLine("rel", "v1", FALSE),
    StreamInfLine(attrs2, TRUE), BlankLine, SegmentLine("rel", "v2", TRUE)>>
MasterWithoutVariantsText ==
  <<HeaderLine, StreamInfLine(<<<<"BANDWIDTH", 2>>>>, FALSE),
    TagLine(<<"#EXT-X-ENDLIST">>, "", FALSE)>>

VariantPaths == {"v1", "v2"}
\* attribute lists of variant lines: no bandwidth, a bandwidth, and an average
\* bandwidth written before the bandwidth
VariantAttrs ==
  {<<>>, <<<<"BANDWIDTH", 2>>>>, <<<<"BANDWIDTH", 3>>>>,
   <<<<"AVERAGE-BANDWIDTH", 1>>, <<"BANDWIDTH", 3>>>>}

PrimaryResponses ==
  {FetchFails, Delivers(MediaText("s0")), Delivers(AdMediaText), Delivers(NoHeaderText),
   Delivers(NoSegmentsText), Delivers(MasterWithoutVariantsText)}
    \cup {Delivers(MasterText(a1, a2)) : a1 \in VariantAttrs, a2 \in VariantAttrs}
VariantResponses(path) == {FetchFails, Delivers(MediaText(path)), Delivers(NoSegmentsText)}

Webs ==
  {[primary |-> p, variants |-> [v \in VariantPaths |-> IF v = "v1" THEN r1 ELSE r2]] :
     p \in PrimaryResponses, r1 \in VariantResponses("v1"), r2 \in VariantResponses("v2")}
NoWeb == [primary |-> FetchFails, variants |-> [v \in VariantPaths |-> FetchFails]]

\* the URLs the engine is called with: a playlist URL and a file URL
EngineUrls == {Raw("https", "p", "m3u8"), Raw("https", "p", "mp4")}

\* pc: idle, getInfo, fetchPrimary, probe, mkdir, write, done.  outcome: none, null, a
\* path ("path") or an exception thrown to the caller ("threw").  failed: the calls
\* that failed; infoExists: the answer of the existence check; fetches: the number of
\* network fetches; probes: the variants fetched, in order; resolved: the playlist
\* resolveToMediaPlaylist returned ("primary" or the variant's URL) and its text.
NoEngineCall ==
  [pc |-> "idle", url |-> Undefined, variants |-> <<>>, outcome |-> "none", failed |-> {},
   infoExists |-> "unchecked", fetches |-> 0, probes |-> <<>>, resolved |-> "none",
   text |-> <<>>, wrote |-> FALSE]

EngineIdle ==
  /\ engineCall = NoEngineCall
  /\ disk = {}
  /\ web = NoWeb

\* what the engine's steps leave alone besides the cache map, the disk and the network
engineFrame ==
  <<apiBaseUrl, vodAdBlockEnabled, detail, failedSources, episodes, currentEpisodeIndex,
    isLoading, loadCall, errorCalls, rendered, tasks, vodOp, liveVars, candCall, filterCall,
    envVars, playbackVars, web>>

Returns(call, outcome) == [call EXCEPT !.pc = "done", !.outcome = outcome]

passesChecksAlways(text, filtered) == TRUE
\* playlist.text.includes("#EXTM3U") and filteredPlaylist.includes("#EXTINF")
passesChecks(text, filtered) == includesTag(text, "#EXTM3U") /\ includesTag(filtered, "#EXTINF")

\* resolveToMediaPlaylist has returned: the checks of the text, up to the await of
\* makeDirectoryAsync
Resolved(call, which, text) ==
  LET filteredPlaylist == filterAndNormalizeMediaPlaylist(text, TRUE)
      c == [call EXCEPT !.resolved = which, !.text = text]
  IN IF passesChecks(text, filteredPlaylist) THEN [c EXCEPT !.pc = "mkdir"]
     ELSE Returns(c, "null")

\* createDiscontinuityFilteredM3u8Url(originalUrl), up to its first await
CreateStart(originalUrl) ==
  /\ engineCall.pc \in {"idle", "done"}
  /\ LET call == [NoEngineCall EXCEPT !.url = originalUrl]
     IN engineCall' =
          IF ~isHttpLiveUrl(originalUrl) \/ ~isM3u8LiveUrl(originalUrl)
            THEN Returns(call, "null")
          ELSE IF originalUrl \in filteredPlaylistCache
            THEN [call EXCEPT !.pc = "getInfo"]
          ELSE [call EXCEPT !.pc = "fetchPrimary"]
  /\ UNCHANGED <<engineFrame, filteredPlaylistCache, disk>>

fileExistsAlways(files, url) == TRUE
\* fileInfo.exists
fileExists(files, url) == url \in files

\* FileSystem.getInfoAsync(cachedUrl) settles
GetInfoDone(rejects) ==
  /\ engineCall.pc = "getInfo"
  /\ IF rejects
       THEN /\ engineCall' = Returns([engineCall EXCEPT !.failed = @ \cup {"getInfo"}], "threw")
            /\ UNCHANGED filteredPlaylistCache
       ELSE IF fileExists(disk, engineCall.url)
       THEN /\ engineCall' = Returns([engineCall EXCEPT !.infoExists = "exists"], "path")
            /\ UNCHANGED filteredPlaylistCache
       ELSE /\ engineCall' = [engineCall EXCEPT !.infoExists = "missing", !.pc = "fetchPrimary"]
            /\ filteredPlaylistCache' = filteredPlaylistCache \ {engineCall.url}
  /\ UNCHANGED <<engineFrame, disk>>

\* fetchM3u8WithTimeout(playlistUrl) settles in resolveToMediaPlaylist
FetchPrimaryDone ==
  /\ engineCall.pc = "fetchPrimary"
  /\ LET primary == web.primary
         call == [engineCall EXCEPT !.fetches = @ + 1]
         variants == parseVariantPlaylistUrls(primary.text)
     IN engineCall' =
          IF ~primary.ok
            THEN Returns([call EXCEPT !.failed = @ \cup {"fetch"}], "null")
          ELSE IF ~includesTag(primary.text, "#EXT-X-STREAM-INF") \/ variants = <<>>
            THEN Resolved(call, "primary", primary.text)
          ELSE [call EXCEPT !.pc = "probe", !.variants = variants]
  /\ UNCHANGED <<engineFrame, filteredPlaylistCache, disk>>

\* fetchM3u8WithTimeout(variant.url) settles in the loop of resolveToMediaPlaylist
ProbeDone ==
  /\ engineCall.pc = "probe"
  /\ LET variant == Head(engineCall.variants)
         variantPlaylist == web.variants[variant.url]
         call == [engineCall EXCEPT !.fetches = @ + 1, !.probes = Append(@, variant.url),
                                    !.variants = Tail(@),
                                    !.failed = IF variantPlaylist.ok THEN @
                                               ELSE @ \cup {"variant"}]
     IN engineCall' =
          IF variantPlaylist.ok /\ includesTag(variantPlaylist.text, "#EXTINF")
            THEN Resolved(call, variant.url, variantPlaylist.text)
          ELSE IF call.variants = <<>>
            THEN Resolved(call, "primary", web.primary.text)
          ELSE call
  /\ UNCHANGED <<engineFrame, filteredPlaylistCache, disk>>

\* FileSystem.makeDirectoryAsync settles
MkdirDone(rejects) ==
  /\ engineCall.pc = "mkdir"
  /\ engineCall' = IF rejects
                     THEN Returns([engineCall EXCEPT !.failed = @ \cup {"mkdir"}], "null")
                     ELSE [engineCall EXCEPT !.pc = "write"]
  /\ UNCHANGED <<engineFrame, filteredPlaylistCache, disk>>

\* FileSystem.writeAsStringAsync settles
WriteDone(rejects) ==
  /\ engineCall.pc = "write"
  /\ IF rejects
       THEN /\ engineCall' = Returns([engineCall EXCEPT !.failed = @ \cup {"write"}], "null")
            /\ UNCHANGED <<filteredPlaylistCache, disk>>
       ELSE /\ engineCall' = Returns([engineCall EXCEPT !.wrote = TRUE], "path")
            /\ disk' = disk \cup {engineCall.url}
            /\ filteredPlaylistCache' = filteredPlaylistCache \cup {engineCall.url}
  /\ UNCHANGED engineFrame

\* the system removes a file from the cache directory
CachePurged(url) ==
  /\ url \in disk
  /\ disk' = disk \ {url}
  /\ UNCHANGED <<engineFrame, filteredPlaylistCache, engineCall>>

(***************************************************************************)
(* CALLS OF THE CANDIDATE RESOLUTION                                       *)
(***************************************************************************)
\* raw URLs by the parts the two tests look at, the empty string and a missing URL
CandidateUrls ==
  {Raw(sch, "p", ext) : sch \in {"http", "https", "rtmp"}, ext \in {"m3u8", "mp4"}}
    \cup {EmptyUrl, Undefined}
CandidateBases ==
  {EmptyBase, [scheme |-> "http", host |-> "api", slash |-> TRUE],
   [scheme |-> "https", host |-> "api", slash |-> FALSE]}
CandidateSourceKeys == {"", "A"}

NoCandCall ==
  [originalUrl |-> Undefined, baseUrl |-> EmptyBase, sourceKey |-> "", adBlockEnabled |-> FALSE,
   done |-> TRUE, result |-> <<>>, adFilteredCandidates |-> <<>>]

\* getPlaybackUrlCandidates(originalUrl, apiBaseUrl, sourceKey, adBlockEnabled) returns
GetPlaybackUrlCandidatesCall ==
  /\ ~candCall.done
  /\ candCall' = [candCall EXCEPT
                    !.done = TRUE,
                    !.adFilteredCandidates =
                       getAdFilteredM3u8Candidates(candCall.originalUrl, candCall.baseUrl,
                                                   candCall.sourceKey),
                    !.result = getPlaybackUrlCandidates(candCall.originalUrl, candCall.baseUrl,
                                                        candCall.sourceKey,
                                                        candCall.adBlockEnabled)]
  /\ UNCHANGED <<liveVars, vodVars, filterCall, engineVars, envVars, playbackVars>>

\* the lines playlists are made of: blank, header, tags without a URI, a key tag with
\* a relative URI, the five ad-marker tags, a tag whose text starts with an ad-marker
\* tag, and segment references
PlaylistLines ==
  {BlankLine, HeaderLine,
   TagLine(<<"#EXTINF">>, "value", FALSE), TagLine(<<"#EXTINF">>, "value", TRUE),
   TagLine(<<"#EXT-X-KEY">>, "uri-rel", FALSE),
   TagLine(<<"#EXT-X-DISCONTINUITY">>, "", FALSE),
   TagLine(<<"#EXT-X-CUE-OUT">>, "value", FALSE),
   TagLine(<<"#EXT-X-CUE-IN">>, "", TRUE),
   TagLine(<<"#EXT-OATCLS-SCTE35">>, "value", FALSE),
   TagLine(<<"#EXT-X-SCTE35">>, "value", FALSE),
   TagLine(<<"#EXT-X-DISCONTINUITY", "-SEQUENCE">>, "value", FALSE),
   SegmentLine("rel", "s0", FALSE), SegmentLine("rel", "s1", TRUE),
   SegmentLine("abs", "s0", FALSE)}
\* the longest playlist
MaxLines == 3
Playlists == UNION {[1..n -> PlaylistLines] : n \in 0..MaxLines}

NoFilterCall == [playlist |-> <<>>, baseOk |-> TRUE, done |-> TRUE, result |-> <<>>]

\* filterAndNormalizeMediaPlaylist(playlistText, baseUrl) returns
FilterAndNormalizeCall ==
  /\ ~filterCall.done
  /\ filterCall' = [filterCall EXCEPT
                      !.done = TRUE,
                      !.result = filterAndNormalizeMediaPlaylist(filterCall.playlist,
                                                                 filterCall.baseOk)]
  /\ UNCHANGED <<liveVars, vodVars, candCall, engineVars, envVars, playbackVars>>

\* the collaborators as the player specifications start with them: the catalog, no
\* stored record, no stored rate
EnvInit ==
  /\ searchResults = Catalog
  /\ playRecords = [s \in Sources |-> NoRecord]
  /\ playerSettings = [s \in Sources |-> NoSettings]
  /\ engineEpisode = -1
  /\ now = 0
  /\ saveTimers = {}

\* the playback fields of the store's initial state
PlaybackFieldsInit ==
  /\ status = NoStatus
  /\ progressPosition = FracZero
  /\ seekPosition = FracZero
  /\ initialPosition = 0
  /\ playbackRate = 10
  /\ introEndTime = NoTime
  /\ outroStartTime = NoTime
  /\ showNextEpisodeOverlay = FALSE
  /\ shownModals = {}
  /\ isSeeking = FALSE
  /\ isRecordSaveThrottled = FALSE

AuxInit ==
  /\ candCall = NoCandCall
  /\ filterCall = NoFilterCall
  /\ EngineIdle
  /\ EnvInit
  /\ PlaybackFieldsInit
  /\ playOp = NoPlayOp

CandidatesInit ==
  /\ LiveInit
  /\ VodInit
  /\ EnvInit
  /\ PlaybackFieldsInit
  /\ playOp = NoPlayOp
  /\ filterCall = NoFilterCall
  /\ EngineIdle
  /\ candCall \in [originalUrl : CandidateUrls, baseUrl : CandidateBases,
                   sourceKey : CandidateSourceKeys, adBlockEnabled : BOOLEAN,
                   done : {FALSE}, result : {<<>>}, adFilteredCandidates : {<<>>}]

CandidatesNext == GetPlaybackUrlCandidatesCall

SpecCandidates == CandidatesInit /\ [][CandidatesNext]_vars

FilterInit ==
  /\ LiveInit
  /\ VodInit
  /\ apiBaseUrl = EmptyBase
  /\ ~vodAdBlockEnabled
  /\ EnvInit
  /\ PlaybackFieldsInit
  /\ playOp = NoPlayOp
  /\ candCall = NoCandCall
  /\ EngineIdle
  /\ filterCall \in [playlist : Playlists, baseOk : BOOLEAN, done : {FALSE}, result : {<<>>}]

FilterNext == FilterAndNormalizeCall

SpecFilter == FilterInit /\ [][FilterNext]_vars

EngineInit ==
  /\ LiveInit
  /\ VodInit
  /\ apiBaseUrl = EmptyBase
  /\ ~vodAdBlockEnabled
  /\ candCall = NoCandCall
  /\ filterCall = NoFilterCall
  /\ EnvInit
  /\ PlaybackFieldsInit
  /\ playOp = NoPlayOp
  /\ engineCall = NoEngineCall
  /\ disk = {}
  /\ web \in Webs

EngineNext ==
  \/ \E url \in EngineUrls : CreateStart(url)
  \/ \E rejects \in BOOLEAN : GetInfoDone(rejects)
  \/ FetchPrimaryDone
  \/ ProbeDone
  \/ \E rejects \in BOOLEAN : MkdirDone(rejects)
  \/ \E rejects \in BOOLEAN : WriteDone(rejects)
  \/ \E url \in disk : CachePurged(url)

SpecEngine == EngineInit /\ [][EngineNext]_vars

Init == LiveInit /\ VodInit /\ AuxInit

SpecPlayer == Init /\ [][VodNext]_vars

SpecLive == Init /\ [][LiveNext]_vars

\* the live player until it is torn down; afterwards only a timer that is still
\* pending can run
TeardownNext ==
  \/ /\ liveOp.name # "unmount"
     /\ \E s \in StreamUrls \cup {NoUrl}, f \in FallbackUrls \cup {NoUrl} : StreamUrlEffect(s, f)
  \/ \E t \in TimerIds : TimerFire(t)
  \/ /\ liveOp.name # "unmount"
     /\ \E st \in LiveStatuses : LiveStatusUpdate(st)
  \/ /\ liveOp.name # "unmount"
     /\ LiveVideoOnError
  \/ Unmount

SpecTeardown == Init /\ [][TeardownNext]_vars

\* the URLs the <Video> was given for the requested stream
GivenUrls == {activeHistory[i] : i \in 1..Len(activeHistory)} \ {NoUrl}

\* the load of URL u fails in the <Video>, which is about to report it through one of
\* its two error callbacks; u is the URL it shows or one it was given before
VideoFails(u) ==
  /\ VideoMounted
  /\ u \in GivenUrls
  /\ liveOp.name # "videoFails"
  /\ errorOf' = u
  /\ liveOp' = LiveOpRec("videoFails", FALSE)
  /\ UNCHANGED <<streamUrl, fallbackStreamUrl, activeStreamUrl, liveIsLoading, isTimeout,
                 statusMessage, timers, timeoutRef, hasSwitchedRef, fallbackStreamUrlRef,
                 activeHistory, screenVars, vodVars, auxVars>>

\* the live player with the failures of the <Video> told apart by their URL: a
\* failure is reported by the status callback or by onError before anything else runs
ReportsNext ==
  \/ /\ liveOp.name # "videoFails"
     /\ \E s \in StreamUrls \cup {NoUrl}, f \in FallbackUrls \cup {NoUrl} : StreamUrlEffect(s, f)
  \/ /\ liveOp.name # "videoFails"
     /\ \E t \in TimerIds : TimerFire(t)
  \/ /\ liveOp.name # "videoFails"
     /\ \E st \in LiveStatuses \ {"error"} : LiveStatusUpdate(st)
  \/ \E u \in StreamUrls \cup FallbackUrls : VideoFails(u)
  \/ /\ liveOp.name = "videoFails"
     /\ LiveStatusUpdate("error")
  \/ /\ liveOp.name = "videoFails"
     /\ LiveVideoOnError

SpecReports == Init /\ [][ReportsNext]_vars

(***************************************************************************)
(* LIVE SCREEN: sources, channels and favorites                            *)
(***************************************************************************)
FAVORITES_GROUP_NAME == "Favorites"

isSupportedLiveUrl(url) == url.scheme \in {"http", "https"}

\* sourceChannels.filter((channel) => isSupportedLiveUrl(channel.url))
supportedChannels(s) ==
  LET supported(ch) == isSupportedLiveUrl(ch.url)
  IN SelectSeq(ServerChannels[s], supported)

getChannelFavoriteId(channel) == IF channel.tvgId # "" THEN channel.tvgId ELSE channel.id

\* the favorite key `${sourceKey}+${getChannelFavoriteId(channel)}`, kept as a pair
favoriteKey(sourceKey, channel) == <<sourceKey, getChannelFavoriteId(channel)>>

\* LiveFavoriteManager.getBySource(sourceKey), as the map built from its keys
favoritesBySource(stored, sourceKey) == {k \in stored : k[1] = sourceKey}

\* LiveFavoriteManager.toggle(sourceKey, channelId, ...)
toggleStored(stored, key) == IF key \in stored THEN stored \ {key} ELSE stored \cup {key}

groupNameOf(channel) == IF channel.group # "" THEN channel.group ELSE "Other"

\* applyChannels: the group names in the order of their first channel
ownGroupNames(chs) == Dedup([i \in 1..Len(chs) |-> groupNameOf(chs[i])])

\* applyChannels: the channels of the list that are favorites of the source
favoriteChannels(chs, sourceKey, favMap) ==
  LET isFavorite(ch) == favoriteKey(sourceKey, ch) \in favMap
  IN SelectSeq(chs, isFavorite)

\* applyChannels: groups, with the favorites group when it is not empty
groupsOf(chs, sourceKey, favMap) ==
  LET fav == favoriteChannels(chs, sourceKey, favMap)
      own == ownGroupNames(chs)
      names == {own[i] : i \in 1..Len(own)} \cup (IF fav # <<>> THEN {FAVORITES_GROUP_NAME} ELSE {})
      inGroup(g) == LET member(ch) == groupNameOf(ch) = g IN SelectSeq(chs, member)
  IN [g \in names |-> IF g = FAVORITES_GROUP_NAME /\ fav # <<>> THEN fav ELSE inGroup(g)]

\* applyChannels: the group names, the favorites group moved to the front
groupNamesOf(chs, sourceKey, favMap) ==
  LET fav == favoriteChannels(chs, sourceKey, favMap)
      notFavorites(g) == g # FAVORITES_GROUP_NAME
  IN IF fav # <<>> THEN <<FAVORITES_GROUP_NAME>> \o SelectSeq(ownGroupNames(chs), notFavorites)
                   ELSE ownGroupNames(chs)

\* showChannelTitle(title): the title is shown and its timer restarted
showChannelTitle(title) ==
  /\ channelTitle' = title
  /\ titleTimer' = TRUE

\* applyChannels: setCurrentChannelIndex(0)
applyChannelsIndex(idx) == 0

\* applyChannels(nextChannels, sourceKey, nextFavoriteMap)
applyChannels(nextChannels, sourceKey, nextFavoriteMap) ==
  LET groupNames == groupNamesOf(nextChannels, sourceKey, nextFavoriteMap)
  IN /\ channels' = nextChannels
     /\ groupedChannels' = groupsOf(nextChannels, sourceKey, nextFavoriteMap)
     /\ channelGroups' = groupNames
     /\ selectedGroup' = IF \E i \in 1..Len(groupNames) : groupNames[i] = selectedGroup
                            THEN selectedGroup
                            ELSE IF groupNames # <<>> THEN groupNames[1] ELSE ""
     /\ currentChannelIndex' = applyChannelsIndex(currentChannelIndex)
     /\ IF nextChannels # <<>>
          THEN showChannelTitle(nextChannels[1].name)
          ELSE /\ channelTitle' = NoTitle
               /\ UNCHANGED titleTimer

\* channels.length > 0 ? channels[currentChannelIndex] : null; its url is the stream
\* URL given to the live player
selectedChannel(chs, idx) == IF idx >= 0 /\ idx < Len(chs) THEN chs[idx + 1] ELSE NoChannel

ScreenOpRec(name) == [name |-> name]

\* setChannelCache stores a new object, which the effect's dependency test tells from
\* the one of its last run
newCacheObject == [effectDeps EXCEPT !.sameCache = FALSE]

\* a run of loadChannelsBySource, suspended at getBySource; the closure of the effect
\* holds the source key and the cache entry of its render (runs with the same closure
\* at the same await are not told apart)
LoadRun(sourceKey, cached) ==
  [kind |-> "load", pc |-> "favorites", source |-> sourceKey,
   cached |-> cached, map |-> {}, channel |-> NoChannel, channels |-> <<>>]

\* a call of toggleChannelFavorite, suspended at LiveFavoriteManager.toggle; the closure
\* of the callback holds the source key and the channels of its render
ToggleRun(sourceKey, channel, chs) ==
  [kind |-> "toggle", pc |-> "toggle", source |-> sourceKey,
   cached |-> NoEntry, map |-> {}, channel |-> channel, channels |-> chs]

\* the index of the first source with supported channels in loadSources, 0 if none
firstPlayableIndex ==
  LET playable(i) == supportedChannels(LiveSourceOrder[i]) # <<>>
  IN IF \E i \in 1..Len(LiveSourceOrder) : playable(i)
       THEN CHOOSE i \in 1..Len(LiveSourceOrder) :
              playable(i) /\ \A j \in 1..Len(LiveSourceOrder) : playable(j) => i <= j
       ELSE 0

\* the effect on [apiBaseUrl] with a configured backend that lists the sources: it
\* fetches the channels of the sources up to the first playable one and selects it
LoadSources ==
  /\ liveSources = <<>>
  /\ liveSources' = LiveSourceOrder
  /\ loadError' = NoLoadError
  /\ LET last == IF firstPlayableIndex = 0 THEN Len(LiveSourceOrder) ELSE firstPlayableIndex
         preloaded == {LiveSourceOrder[i] : i \in 1..last}
     IN /\ channelCache' = [s \in LiveSourceKeys |->
                              IF s \in preloaded THEN Entry(supportedChannels(s))
                                                 ELSE channelCache[s]]
        /\ selectedSourceKey' = IF firstPlayableIndex = 0 THEN LiveSourceOrder[1]
                                                          ELSE LiveSourceOrder[firstPlayableIndex]
  /\ effectDeps' = newCacheObject
  /\ screenIsLoading' = FALSE
  /\ screenOp' = ScreenOpRec("loadSources")
  /\ UNCHANGED <<channels, groupedChannels, channelGroups, selectedGroup, favoriteMap,
                 currentChannelIndex, channelTitle, titleTimer, screenRuns,
                 liveFavorites, controllerVars, vodVars, auxVars>>

\* the source selector: onPress={() => setSelectedSourceKey(item.key)}
SelectSource(s) ==
  /\ \E i \in 1..Len(liveSources) : liveSources[i] = s
  /\ s # selectedSourceKey
  /\ selectedSourceKey' = s
  /\ screenOp' = ScreenOpRec("selectSource")
  /\ UNCHANGED <<liveSources, channelCache, channels, groupedChannels, channelGroups,
                 selectedGroup, favoriteMap, loadError, currentChannelIndex,
                 screenIsLoading, channelTitle, titleTimer, effectDeps, screenRuns,
                 liveFavorites, controllerVars, vodVars, auxVars>>

\* handleRefreshCurrentSource: the cache entry of the selected source is deleted
RefreshCurrentSource ==
  /\ selectedSourceKey # NoSourceKey
  /\ channelCache[selectedSourceKey].hit
  /\ channelCache' = [channelCache EXCEPT ![selectedSourceKey] = NoEntry]
  /\ effectDeps' = newCacheObject
  /\ screenOp' = ScreenOpRec("refresh")
  /\ UNCHANGED <<liveSources, selectedSourceKey, channels, groupedChannels, channelGroups,
                 selectedGroup, favoriteMap, loadError, currentChannelIndex,
                 screenIsLoading, channelTitle, titleTimer, screenRuns,
                 liveFavorites, controllerVars, vodVars, auxVars>>

\* the effect on [apiBaseUrl, selectedSourceKey, channelCache, applyChannels] runs after
\* a render with new dependencies: loadChannelsBySource up to await getBySource
ChannelsEffect ==
  /\ effectDeps # [key |-> selectedSourceKey, sameCache |-> TRUE]
  /\ effectDeps' = [key |-> selectedSourceKey, sameCache |-> TRUE]
  /\ IF selectedSourceKey = NoSourceKey
       THEN UNCHANGED <<loadError, screenRuns>>
       ELSE /\ loadError' = NoLoadError
            /\ screenRuns' = screenRuns \cup
                 {LoadRun(selectedSourceKey, channelCache[selectedSourceKey])}
            /\ Cardinality(screenRuns') <= MaxRuns
  /\ screenOp' = ScreenOpRec("channelsEffect")
  /\ UNCHANGED <<liveSources, selectedSourceKey, channelCache, channels, groupedChannels,
                 channelGroups, selectedGroup, favoriteMap, currentChannelIndex,
                 screenIsLoading, channelTitle, titleTimer, liveFavorites,
                 controllerVars, vodVars, auxVars>>

\* loadChannelsBySource after await LiveFavoriteManager.getBySource: the favorite map
\* is set; cached channels are applied, otherwise the channels are fetched
FavoritesResolved(r) ==
  /\ r \in screenRuns
  /\ r.kind = "load" /\ r.pc = "favorites"
  /\ LET nextFavoriteMap == favoritesBySource(liveFavorites, r.source)
     IN /\ favoriteMap' = nextFavoriteMap
        /\ IF r.cached.hit
             THEN /\ applyChannels(r.cached.channels, r.source, nextFavoriteMap)
                  /\ screenRuns' = screenRuns \ {r}
                  /\ UNCHANGED screenIsLoading
             ELSE /\ screenIsLoading' = TRUE
                  /\ screenRuns' = (screenRuns \ {r}) \cup
                       {[r EXCEPT !.pc = "channels", !.map = nextFavoriteMap]}
                  /\ UNCHANGED <<channels, groupedChannels, channelGroups, selectedGroup,
                                 currentChannelIndex, channelTitle, titleTimer>>
  /\ screenOp' = ScreenOpRec("loadChannelsBySource")
  /\ UNCHANGED <<liveSources, selectedSourceKey, channelCache, loadError, effectDeps,
                 liveFavorites, controllerVars, vodVars, auxVars>>

\* loadChannelsBySource after await api.getLiveChannels, which resolves or rejects
ChannelsResolved(r, ok) ==
  /\ r \in screenRuns
  /\ r.kind = "load" /\ r.pc = "channels"
  /\ screenRuns' = screenRuns \ {r}
  /\ screenIsLoading' = FALSE
  /\ IF ok
       THEN /\ channelCache' = [channelCache EXCEPT ![r.source] = Entry(supportedChannels(r.source))]
            /\ effectDeps' = newCacheObject
            /\ loadError' = IF ServerChannels[r.source] # <<>> /\ supportedChannels(r.source) = <<>>
                               THEN "unsupported" ELSE loadError
            /\ applyChannels(supportedChannels(r.source), r.source, r.map)
       ELSE /\ loadError' = "failed"
            /\ channels' = <<>>
            /\ groupedChannels' = <<>>
            /\ channelGroups' = <<>>
            /\ selectedGroup' = ""
            /\ currentChannelIndex' = 0
            /\ UNCHANGED <<channelCache, channelTitle, titleTimer, effectDeps>>
  /\ screenOp' = ScreenOpRec("loadChannelsBySource")
  /\ UNCHANGED <<liveSources, selectedSourceKey, favoriteMap, liveFavorites,
                 controllerVars, vodVars, auxVars>>

\* handleSelectChannel(channel) for a channel of the list shown
SelectChannel(i) ==
  /\ i >= 0 /\ i < Len(channels)
  /\ currentChannelIndex' =
       CHOOSE g \in 0..(Len(channels) - 1) :
         /\ channels[g + 1].id = channels[i + 1].id
         /\ \A h \in 0..(Len(channels) - 1) : channels[h + 1].id = channels[i + 1].id => g <= h
  /\ showChannelTitle(channels[i + 1].name)
  /\ screenOp' = ScreenOpRec("selectChannel")
  /\ UNCHANGED <<liveSources, selectedSourceKey, channelCache, channels, groupedChannels,
                 channelGroups, selectedGroup, favoriteMap, loadError, screenIsLoading,
                 effectDeps, screenRuns, liveFavorites, controllerVars, vodVars, auxVars>>

\* toggleChannelFavorite(channel) up to await LiveFavoriteManager.toggle
ToggleStart(i) ==
  /\ i >= 0 /\ i < Len(channels)
  /\ selectedSourceKey # NoSourceKey
  /\ screenRuns' = screenRuns \cup {ToggleRun(selectedSourceKey, channels[i + 1], channels)}
  /\ Cardinality(screenRuns') <= MaxRuns
  /\ screenOp' = ScreenOpRec("toggleStart")
  /\ UNCHANGED <<liveSources, selectedSourceKey, channelCache, channels, groupedChannels,
                 channelGroups, selectedGroup, favoriteMap, loadError, currentChannelIndex,
                 screenIsLoading, channelTitle, titleTimer, effectDeps, liveFavorites,
                 controllerVars, vodVars, auxVars>>

\* LiveFavoriteManager.toggle has written; toggleChannelFavorite awaits getBySource
ToggleStored(r) ==
  /\ r \in screenRuns
  /\ r.kind = "toggle" /\ r.pc = "toggle"
  /\ liveFavorites' = toggleStored(liveFavorites, favoriteKey(r.source, r.channel))
  /\ screenRuns' = (screenRuns \ {r}) \cup {[r EXCEPT !.pc = "read"]}
  /\ screenOp' = ScreenOpRec("toggleStored")
  /\ UNCHANGED <<liveSources, selectedSourceKey, channelCache, channels, groupedChannels,
                 channelGroups, selectedGroup, favoriteMap, loadError, currentChannelIndex,
                 screenIsLoading, channelTitle, titleTimer, effectDeps,
                 controllerVars, vodVars, auxVars>>

\* toggleChannelFavorite after await getBySource: setFavoriteMap, applyChannels
ToggleDone(r) ==
  /\ r \in screenRuns
  /\ r.kind = "toggle" /\ r.pc = "read"
  /\ screenRuns' = screenRuns \ {r}
  /\ LET nextFavoriteMap == favoritesBySource(liveFavorites, r.source)
     IN /\ favoriteMap' = nextFavoriteMap
        /\ applyChannels(r.channels, r.source, nextFavoriteMap)
  /\ screenOp' = ScreenOpRec("toggleChannelFavorite")
  /\ UNCHANGED <<liveSources, selectedSourceKey, channelCache, loadError, screenIsLoading,
                 effectDeps, liveFavorites, controllerVars, vodVars, auxVars>>

\* the timer of showChannelTitle: setChannelTitle(null)
TitleTimerFire ==
  /\ titleTimer
  /\ titleTimer' = FALSE
  /\ channelTitle' = NoTitle
  /\ screenOp' = ScreenOpRec("titleTimer")
  /\ UNCHANGED <<liveSources, selectedSourceKey, channelCache, channels, groupedChannels,
                 channelGroups, selectedGroup, favoriteMap, loadError, currentChannelIndex,
                 screenIsLoading, effectDeps, screenRuns, liveFavorites,
                 controllerVars, vodVars, auxVars>>

ScreenChannelIndexes == 0..1

\* the favorites of the source selected first: channels are selected and toggled
FavoritesNext ==
  \/ LoadSources
  \/ ChannelsEffect
  \/ \E r \in screenRuns : FavoritesResolved(r)
  \/ \E i \in ScreenChannelIndexes : SelectChannel(i)
  \/ \E i \in ScreenChannelIndexes : ToggleStart(i)
  \/ \E r \in screenRuns : ToggleStored(r)
  \/ \E r \in screenRuns : ToggleDone(r)
  \/ TitleTimerFire

SpecFavorites == Init /\ [][FavoritesNext]_vars

\* the sources: they are selected and refreshed while channel loads are pending
SourcesNext ==
  \/ LoadSources
  \/ \E s \in LiveSourceKeys : SelectSource(s)
  \/ RefreshCurrentSource
  \/ ChannelsEffect
  \/ \E r \in screenRuns : FavoritesResolved(r)
  \/ \E r \in screenRuns, ok \in BOOLEAN : ChannelsResolved(r, ok)

SpecSources == Init /\ [][SourcesNext]_vars

(***************************************************************************)
(* PLAYBACK OF A LOADED TITLE                                              *)
(***************************************************************************)
\* a title whose first source has three episodes
PlaybackCatalog ==
  [s \in Sources |->
     CASE s = "A" -> <<Raw("https", "e0", "mp4"), Raw("https", "e1", "mp4"),
                       Raw("https", "e2", "mp4")>>
       [] OTHER -> <<>>]

MediaDuration == 4000
PlaybackPositions == {0, 3000, 3800, 4000}
\* the statuses the render engine reports: not loaded (with or without an error),
\* loaded with a known or an unknown duration, and the end of the media
PlaybackStatuses ==
  {MkStatus(FALSE, e, NoTime, NoTime, FALSE) : e \in BOOLEAN}
    \cup {MkStatus(TRUE, FALSE, p, d, FALSE) : p \in PlaybackPositions, d \in {0, MediaDuration}}
    \cup {MkStatus(TRUE, FALSE, MediaDuration, d, TRUE) : d \in {0, MediaDuration}}

\* the store before a title is loaded, without the history
PlaybackStart ==
  /\ LiveInit
  /\ VodInit
  /\ apiBaseUrl = EmptyBase
  /\ ~vodAdBlockEnabled
  /\ candCall = NoCandCall
  /\ filterCall = NoFilterCall
  /\ EngineIdle
  /\ searchResults = PlaybackCatalog
  /\ playRecords = [s \in Sources |-> NoRecord]
  /\ playerSettings = [s \in Sources |-> NoSettings]
  /\ engineEpisode = -1
  /\ now = 0
  /\ saveTimers = {}
  /\ PlaybackFieldsInit

PlaybackInit == PlaybackStart /\ playOp = FirstPlayOp

SessionInit == PlaybackStart /\ playOp = FirstPlayName

PlaybackEpisodeIndexes == 0..2

\* one title is loaded and played within one throttle window
PlaybackNext ==
  \/ (episodes = <<>> /\ LoadVideoStart("A", 0, TRUE))
  \/ LoadVideoInitDone("A")
  \/ LoadVideoStorageDone(TRUE)
  \/ EngineLoad
  \/ \E st \in PlaybackStatuses : PlaybackStatusUpdate(st)
  \/ \E i \in PlaybackEpisodeIndexes : PlayEpisode(i)
  \/ SetOutroStartTime

SpecPlayback == PlaybackInit /\ [][PlaybackNext]_vars

\* statuses for the skip markers: not loaded, and loaded at the start, in the middle and
\* at the end of the media, with a known or an unknown duration
MarkerPositions == {0, 3000, MediaDuration}
MarkerStatuses ==
  {MkStatus(FALSE, FALSE, NoTime, NoTime, FALSE)}
    \cup {MkStatus(TRUE, FALSE, p, d, FALSE) : p \in MarkerPositions, d \in {0, MediaDuration}}

\* a title is loaded and played, and the two skip markers are toggled at any position
MarkersNext ==
  \/ (episodes = <<>> /\ LoadVideoStart("A", 0, TRUE))
  \/ LoadVideoInitDone("A")
  \/ LoadVideoStorageDone(TRUE)
  \/ EngineLoad
  \/ \E st \in MarkerStatuses : PlaybackStatusUpdate(st)
  \/ SetIntroEndTime
  \/ SetOutroStartTime

SpecMarkers == PlaybackInit /\ [][MarkersNext]_vars

(***************************************************************************)
(* A PLAYBACK SESSION AND ITS END                                          *)
(***************************************************************************)
SessionStatuses ==
  {MkStatus(FALSE, TRUE, NoTime, NoTime, FALSE), MkStatus(TRUE, FALSE, 3000, MediaDuration, FALSE)}
SeekSteps == {10000}
PlaybackRates == {20}
SessionModals == {"controls", "speed"}

\* a title is loaded, played and controlled, and the session is left through reset at
\* any point
SessionNext ==
  \/ (episodes = <<>> /\ LoadVideoStart("A", 0, TRUE))
  \/ LoadVideoInitDone("A")
  \/ LoadVideoStorageDone(TRUE)
  \/ EngineLoad
  \/ \E st \in SessionStatuses : PlaybackStatusUpdate(st)
  \/ SetIntroEndTime
  \/ SetOutroStartTime
  \/ \E d \in SeekSteps : Seek(d)
  \/ SeekTimerFire
  \/ \E r \in PlaybackRates : SetPlaybackRate(r)
  \/ \E m \in SessionModals, show \in BOOLEAN : SetShowModal(m, show)
  \/ \E show \in BOOLEAN : SetShowNextEpisodeOverlay(show)
  \/ Reset

SpecSession == SessionInit /\ [][SessionNext]_vars

(***************************************************************************)
(* RESUME-RECORD SAVES OVER TIME                                           *)
(***************************************************************************)
SaveStatuses ==
  {MkStatus(FALSE, FALSE, NoTime, NoTime, FALSE), MkStatus(TRUE, FALSE, 3000, MediaDuration, FALSE)}

\* a title is loaded and played while the clock runs; markers are toggled and the
\* session is left and entered again
SaveNext ==
  \/ (episodes = <<>> /\ LoadVideoStart("A", 0, TRUE))
  \/ LoadVideoInitDone("A")
  \/ LoadVideoStorageDone(TRUE)
  \/ EngineLoad
  \/ \E st \in SaveStatuses : PlaybackStatusUpdate(st)
  \/ SetIntroEndTime
  \/ Reset
  \/ Tick
  \/ \E t \in saveTimers : SaveTimerFire(t)

SpecSave == PlaybackInit /\ [][SaveNext]_vars

(***************************************************************************)
(* LOADING TITLES                                                          *)
(***************************************************************************)
\* search results of other titles: no source has episodes; only the second source has
NoEpisodesCatalog == [s \in Sources |-> <<>>]
SecondSourceCatalog ==
  [s \in Sources |-> IF s = "B" THEN <<Raw("https", "b0", "mp4")>> ELSE <<>>]
LoadCatalogs == {Catalog, NoEpisodesCatalog, SecondSourceCatalog}

\* detail store init, while loadVideo awaits it: the search for the requested title
\* replaces the search results
DetailSearchResults(results) ==
  /\ loadCall.pc = "init"
  /\ searchResults' = results
  /\ UNCHANGED <<vodVars, liveVars, candCall, filterCall, engineVars, playRecords,
                 playerSettings, engineEpisode,
                 now, saveTimers, playbackVars>>

\* titles are loaded one after another, episodes are selected and sessions are left
LoadNext ==
  \/ \E src \in Sources, i \in LoadEpisodeIndexes, same \in BOOLEAN :
       LoadVideoStart(src, i, same)
  \/ \E results \in LoadCatalogs : DetailSearchResults(results)
  \/ \E d \in Sources \cup {NoDetail} : LoadVideoInitDone(d)
  \/ \E ok \in BOOLEAN : LoadVideoStorageDone(ok)
  \/ \E i \in EpisodeIndexes : PlayEpisode(i)
  \/ Reset

SpecLoad == Init /\ [][LoadNext]_vars

\* sessions that are left by reset(): once reset() has run no loadVideo call is
\* issued, and only the calls that are suspended at an await can continue
ResetNext ==
  \/ /\ playOp.name # "reset"
     /\ \E src \in Sources, i \in LoadEpisodeIndexes, same \in BOOLEAN :
          LoadVideoStart(src, i, same)
  \/ \E d \in Sources \cup {NoDetail} : LoadVideoInitDone(d)
  \/ \E ok \in BOOLEAN : LoadVideoStorageDone(ok)
  \/ Reset
  \/ OnError
  \/ \E c \in errorCalls, ok \in BOOLEAN : HandleVideoErrorResume(c, ok)
  \/ FilteredPlaylistEffect

ResetInit ==
  /\ LiveInit
  /\ VodInit
  /\ candCall = NoCandCall
  /\ filterCall = NoFilterCall
  /\ EngineIdle
  /\ EnvInit
  /\ PlaybackFieldsInit
  /\ playOp = FirstPlayName

SpecReset == ResetInit /\ [][ResetNext]_vars

\* A playback session left to itself: one loadVideo, then only the render engine, the
\* error path and the filtered-playlist effect act.
RetryNext ==
  \/ (episodes = <<>> /\ \E src \in Sources, i \in LoadEpisodeIndexes :
                           LoadVideoStart(src, i, TRUE))
  \/ \E d \in Sources \cup {NoDetail} : LoadVideoInitDone(d)
  \/ \E ok \in BOOLEAN : LoadVideoStorageDone(ok)
  \/ OnError
  \/ \E c \in errorCalls, ok \in BOOLEAN : HandleVideoErrorResume(c, ok)
  \/ FilteredPlaylistEffect
  \/ \E t \in tasks, built \in BOOLEAN : FilteredPlaylistReady(t, built)

\* Every URL the render engine is given fails (OnError), React commits pending renders
\* and runs their effects, and every awaited promise settles.
FairSpecRetry ==
  /\ Init
  /\ [][RetryNext]_vars
  /\ WF_vars(OnError)
  /\ WF_vars(FilteredPlaylistEffect)
  /\ WF_vars(\E t \in tasks, built \in BOOLEAN : FilteredPlaylistReady(t, built))
  /\ WF_vars(\E c \in errorCalls, ok \in BOOLEAN : HandleVideoErrorResume(c, ok))

(***************************************************************************)
(* PROPERTIES                                                              *)
(***************************************************************************)
CurrentEpisode == EpisodeAt(episodes, currentEpisodeIndex)

\* an OnError step in which the callback's URL is the active URL of the current episode
ActiveErrorStep ==
  /\ vodOp'.name = "onError"
  /\ Truthy(rendered[2])
  /\ CurrentEpisode.url = rendered[2]

\* C1: if every URL the render engine attempts fails, the error path switches
\* candidates only finitely often: from some point on no render error is answered by a
\* candidate switch any more (it escalates to handleVideoError instead).
C1_SameEpisodeRetryBounded == <>[](vodOp.ret # "switched")

\* C2 as stated: every episode of the store has its candidate index inside its
\* candidate list and its url equal to the candidate at that index.
C2_CandidateIndexInRangeAll ==
  \A i \in 1..Len(episodes) :
    /\ 0 <= episodes[i].currentCandidateIndex
    /\ episodes[i].currentCandidateIndex < Len(episodes[i].urlCandidates)
    /\ episodes[i].url = At(episodes[i].urlCandidates, episodes[i].currentCandidateIndex)

\* C2 as amended: every episode of the store whose rawUrl is not the empty string has
\* its candidate index inside its candidate list and its url equal to the candidate at
\* that index.
C2_CandidateIndexInRange ==
  \A i \in 1..Len(episodes) :
    Truthy(episodes[i].rawUrl) =>
      /\ 0 <= episodes[i].currentCandidateIndex
      /\ episodes[i].currentCandidateIndex < Len(episodes[i].urlCandidates)
      /\ episodes[i].url = At(episodes[i].urlCandidates, episodes[i].currentCandidateIndex)

\* an episode that went through an injection and then through a candidate fallback
C2_Witness ==
  /\ CurrentEpisode # NoEpisode
  /\ Truthy(CurrentEpisode.rawUrl)
  /\ At(CurrentEpisode.urlCandidates, 0).kind = "local"
  /\ CurrentEpisode.currentCandidateIndex >= 1

\* C3: tryFallbackUrl on the active url of the current episode: with a next candidate
\* it makes that candidate the url, adds exactly 1 to the candidate index, leaves the
\* candidate list and the other episodes alone and returns true; on the last candidate
\* it returns false (the error escalates) and the episodes are unchanged.
C3_TryFallbackUrl ==
  [][ActiveErrorStep =>
       LET e == CurrentEpisode
           k == e.currentCandidateIndex
       IN IF k + 1 < Len(e.urlCandidates)
            THEN /\ vodOp'.ret = "switched"
                 /\ currentEpisodeIndex' = currentEpisodeIndex
                 /\ episodes' = [episodes EXCEPT ![currentEpisodeIndex + 1] =
                                   [e EXCEPT !.url = e.urlCandidates[k + 2],
                                             !.currentCandidateIndex = k + 1]]
                 /\ Truthy(EpisodeAt(episodes', currentEpisodeIndex).url)
            ELSE /\ vodOp'.ret \in {"noDetail", "terminal", "escalated"}
                 /\ episodes' = episodes
                 /\ currentEpisodeIndex' = currentEpisodeIndex]_vars

\* a fallback has just advanced the current episode to its last candidate
C3_Witness ==
  /\ vodOp = VodOpRec("onError", "switched")
  /\ Len(CurrentEpisode.urlCandidates) >= 3
  /\ CurrentEpisode.currentCandidateIndex = Len(CurrentEpisode.urlCandidates) - 1

\* C4: an error callback bound to a URL that is not the active url of the current
\* episode changes nothing: episodes, episode index, isLoading, the detail record, the
\* failed sources and the suspended handleVideoError calls stay as they are.
C4_StaleErrorIgnored ==
  [][(vodOp'.name = "onError" /\ Truthy(rendered[2]) /\ CurrentEpisode.url # rendered[2])
       => /\ vodOp'.ret = "stale"
          /\ UNCHANGED <<episodes, currentEpisodeIndex, isLoading, detail, failedSources,
                         errorCalls>>]_vars

\* a stale callback was delivered while the store had an active episode with another url
C4_Witness ==
  /\ vodOp = VodOpRec("onError", "stale")
  /\ Truthy(CurrentEpisode.url)
  /\ CurrentEpisode.url # rendered[2]

\* C5: prependCurrentEpisodeCandidate(candidate, originalUrl) changes the episodes only
\* when the current episode exists, its rawUrl equals originalUrl and candidate is not
\* already the first candidate and the active url; then candidate is the first
\* candidate and the url, the index is 0 and the other episodes are unchanged;
\* otherwise nothing changes.
C5_PrependOnlyForSameIdentity ==
  [][\A t \in tasks :
       (vodOp'.name = "prepareFilteredPlaylist" /\ tasks' = tasks \ {t} /\ ~t.canceled)
         => LET e == CurrentEpisode
                candidate == LocalFile(Head(t.targets))
                applies == /\ e # NoEpisode
                           /\ e.rawUrl = t.identity
                           /\ ~(At(e.urlCandidates, 0) = candidate /\ e.url = candidate)
            IN IF vodOp'.ret = "inserted"
                 THEN /\ applies
                      /\ EpisodeAt(episodes', currentEpisodeIndex).url = candidate
                      /\ At(EpisodeAt(episodes', currentEpisodeIndex).urlCandidates, 0)
                           = candidate
                      /\ EpisodeAt(episodes', currentEpisodeIndex).currentCandidateIndex = 0
                      /\ \A i \in 1..Len(episodes) :
                           i # currentEpisodeIndex + 1 => episodes'[i] = episodes[i]
                 ELSE episodes' = episodes]_vars

FallbackWasActive(history, fallback) == \E i \in 1..Len(history) : history[i] = fallback

\* C7: when the timer fires with a fallback present and not yet used, the active URL
\* becomes the fallback, the fallback-used flag is set and a new timer is armed.
C7_TimeoutSwitchesToFallback ==
  (liveOp.name = "timerFire" /\ ~liveOp.preSwitched /\ liveOp.preFallback # NoUrl)
    => /\ activeStreamUrl = liveOp.preFallback
       /\ hasSwitchedRef
       /\ timers # {}

\* C8: when the render engine reports an error (status or onError) while a fallback
\* exists that has not been the active URL for the current stream URL, the active URL
\* becomes the fallback, the flag is set, the message is shown and a timer is armed.
C8_ErrorSwitchesToFallback ==
  (/\ liveOp.name \in {"error", "onError"}
   /\ liveOp.preFallback # NoUrl
   /\ ~FallbackWasActive(liveOp.preHistory, liveOp.preFallback))
    => /\ activeStreamUrl = liveOp.preFallback
       /\ hasSwitchedRef
       /\ statusMessage = MsgSwitched
       /\ timers # {}

\* C9: once the fallback was used or when there is none, a timer expiry or a render
\* error gives the terminal state (isTimeout, not loading), leaves the active URL as it
\* was and leaves no timer armed; the active URL has only been X, or X and then Y.
C9_TerminalFailure ==
  /\ (/\ liveOp.name \in {"timerFire", "error", "onError"}
      /\ (liveOp.preSwitched \/ liveOp.preFallback = NoUrl))
       => /\ isTimeout
          /\ ~liveIsLoading
          /\ activeStreamUrl = liveOp.preActive
          /\ timers = {}
  /\ activeHistory \in {<<streamUrl>>, <<streamUrl, fallbackStreamUrlRef>>}

\* C10: a loaded status with isPlaying cancels the armed timer: after it no timer is
\* pending, so no timeout callback can run until a timer is armed again.
C10_PlayingCancelsTimer ==
  liveOp.name = "playing" => /\ timers = {}
                             /\ ~isTimeout
                             /\ activeStreamUrl = liveOp.preActive

\* a playing status arrived while the timer of the stream was armed
C10_Witness ==
  /\ liveOp.name = "playing"
  /\ liveOp.preTimers # {}
  /\ activeStreamUrl = streamUrl

\* C11: after the effect on [streamUrl, fallbackStreamUrl] has run, from whatever
\* state, the fallback-used flag is clear, the timeout state is clear, the active URL
\* is the requested stream URL, and the only pending timer is the fresh one held in
\* timeoutRef (none at all for a null URL): the timer of the previous run is cancelled.
C11_StreamUrlChangeResets ==
  liveOp.name = "streamUrlEffect"
    => /\ ~hasSwitchedRef
       /\ ~isTimeout
       /\ statusMessage = NoMessage
       /\ activeStreamUrl = streamUrl
       /\ fallbackStreamUrlRef = (IF streamUrl # NoUrl THEN fallbackStreamUrl ELSE NoUrl)
       /\ liveIsLoading = (streamUrl # NoUrl)
       /\ timers = (IF streamUrl # NoUrl THEN {timeoutRef} ELSE {})
       /\ activeHistory = <<streamUrl>>

\* the stream URL was changed while the fallback was in use and its timer was armed
C11_Witness ==
  /\ liveOp.name = "streamUrlEffect"
  /\ liveOp.preSwitched
  /\ liveOp.preActive = liveOp.preFallback
  /\ liveOp.preTimers # {}
  /\ streamUrl # NoUrl
  /\ Cardinality(timers) = 1

\* number of entries of seq equal to x
Count(seq, x) == Cardinality({i \in 1..Len(seq) : seq[i] = x})

\* C12: for every non-empty raw URL, backend, source key and ad-block flag the list
\* returned by getPlaybackUrlCandidates has no two equal entries and holds the raw URL
\* exactly once.
C12_CandidatesUniqueWithRaw ==
  (candCall.done /\ Truthy(candCall.originalUrl))
    => /\ \A i, j \in 1..Len(candCall.result) :
            candCall.result[i] = candCall.result[j] => i = j
       /\ Count(candCall.result, candCall.originalUrl) = 1

\* a call that returned the raw URL together with its two proxy forms
C12_Witness ==
  /\ candCall.done
  /\ Truthy(candCall.originalUrl)
  /\ Len(candCall.result) = 3

\* C13: for an HTTP(S) .m3u8 URL with a backend and a source key the result is
\* [legacy proxy, modern proxy, raw] with ad blocking enabled and
\* [raw, legacy proxy, modern proxy] with it disabled.
C13_CandidateOrder ==
  (/\ candCall.done
   /\ isHttpLiveUrl(candCall.originalUrl) /\ isM3u8LiveUrl(candCall.originalUrl)
   /\ candCall.baseUrl # EmptyBase
   /\ candCall.sourceKey # "")
    => LET raw == candCall.originalUrl
           legacy == legacyProxyUrl(raw, candCall.baseUrl, candCall.sourceKey)
           modern == modernProxyUrl(raw, candCall.baseUrl, candCall.sourceKey)
       IN candCall.result = IF candCall.adBlockEnabled THEN <<legacy, modern, raw>>
                                                       ELSE <<raw, legacy, modern>>

\* a call with ad blocking enabled returned the proxies ahead of an https playlist URL
C13_Witness ==
  /\ candCall.done
  /\ candCall.adBlockEnabled
  /\ candCall.originalUrl = Raw("https", "p", "m3u8")
  /\ Len(candCall.result) = 3
  /\ candCall.result[3] = candCall.originalUrl


\* C14: when a loaded status with didJustFinish arrives for episode i and a next episode
\* exists, then after the update has been processed currentEpisodeIndex = i + 1 and
\* progressPosition is 0; when i is the last episode, currentEpisodeIndex is unchanged.
C14_FinishAdvances ==
  (playOp.name = "statusUpdate" /\ playOp.branch = "normal" /\ playOp.newStatus.didJustFinish)
    => IF playOp.preIndex < playOp.preLen - 1
         THEN currentEpisodeIndex = playOp.preIndex + 1 /\ IsZeroFrac(progressPosition)
         ELSE currentEpisodeIndex = playOp.preIndex

\* C15: with an outro marker set, one crossing of the outro boundary on an episode that
\* has a next episode advances currentEpisodeIndex by exactly 1 in total: the crossing
\* update advances by one, writes no resume record and shows no next-episode overlay,
\* and the status updates that follow it and still report a position in the tail of
\* the episode the engine has not left yet do not advance again.
C15_OutroAdvancesOnce ==
  (/\ playOp.name = "statusUpdate"
   /\ playOp.newStatus.isLoaded
   /\ CrossesOutro(playOp.newStatus, playOp.preOutro))
    => IF playOp.preTail # -1
         THEN currentEpisodeIndex = playOp.preIndex
         ELSE playOp.preIndex < playOp.preLen - 1
                => /\ currentEpisodeIndex = playOp.preIndex + 1
                   /\ playOp.wrote = "none"
                   /\ isRecordSaveThrottled = playOp.preThrottled
                   /\ ~showNextEpisodeOverlay

\* C16: after reset(), called from any reachable state, all episode, position, rate and
\* marker state is cleared: episodes is empty, initialPosition, progressPosition and
\* seekPosition are 0, playbackRate is 1.0, introEndTime and outroStartTime are unset,
\* status is null and the overlay and modal flags are false.
C16_ResetClears ==
  playOp.name = "reset"
    => /\ episodes = <<>>
       /\ initialPosition = 0
       /\ IsZeroFrac(progressPosition)
       /\ IsZeroFrac(seekPosition)
       /\ playbackRate = 10
       /\ introEndTime = NoTime
       /\ outroStartTime = NoTime
       /\ status = NoStatus
       /\ ~showNextEpisodeOverlay
       /\ shownModals = {}

\* the fields of the store (the history variables left out)
storeFields ==
  <<episodes, currentEpisodeIndex, isLoading, status, progressPosition, seekPosition,
    initialPosition, playbackRate, introEndTime, outroStartTime, showNextEpisodeOverlay,
    shownModals, isSeeking, isRecordSaveThrottled>>

\* C17: reset() is idempotent and never fails: in every reachable state reset can run,
\* and a reset that runs right after a reset leaves every field of the store, and
\* everything outside the store, as the first one left it.
C17_ResetIdempotent ==
  /\ [](ENABLED Reset)
  /\ [][(playOp.name = "reset" /\ Reset)
          => UNCHANGED <<storeFields, detail, failedSources, loadCall, errorCalls, tasks,
                         filteredPlaylistCache, envVars>>]_vars

\* a second reset has run after a session in which the position, the rate, the
\* markers and the flags had all been changed
C17_Witness ==
  /\ playOp.name = "reset"
  /\ ~IsZeroFrac(progressPosition)
  /\ ~IsZeroFrac(seekPosition)
  /\ playRecords["A"].introEndTime # NoTime
  /\ playerSettings["A"].playbackRate = 20

\* C18: between any two writes issued by _savePlayRecord without the immediate option
\* at least 10 seconds elapse, while a save requested with immediate (given detail and
\* a loaded status) is written whether or not the throttle window is open, and leaves
\* the throttle flag as it was.
C18_SaveThrottled ==
  /\ (playOp.wrote = "throttled" /\ playOp.prevWrite # NoTime)
       => playOp.at - playOp.prevWrite >= ThrottleTicks
  /\ (playOp.name \in {"setIntroEndTime", "setOutroStartTime"} /\ playOp.branch = "toggle")
       => /\ playOp.wrote = "immediate"
          /\ playRecords[detail].exists
          /\ playRecords[detail].introEndTime = introEndTime
          /\ playRecords[detail].outroStartTime = outroStartTime
          /\ isRecordSaveThrottled = playOp.preThrottled

\* a second throttled write, one throttle window after the first, with a marker set by
\* an immediate save in between
C18_Witness ==
  /\ playOp.wrote = "throttled"
  /\ playOp.prevWrite # NoTime
  /\ playOp.at = playOp.prevWrite + ThrottleTicks
  /\ playRecords["A"].introEndTime # NoTime

\* C19: when no episodes can be resolved from the detail record or from any search
\* result, loadVideo ends in a terminal load failure: isLoading is false, the call is
\* over after its one detail initialisation (nothing is pending that would retry), and
\* the call leaves episodes and currentEpisodeIndex as they were, so nothing is handed
\* to the render engine.
C19_LoadFailureTerminal ==
  [][((\E d \in Sources \cup {NoDetail} : LoadVideoInitDone(d))
        /\ \A s \in Sources : Len(searchResults[s]) = 0)
       => /\ isLoading' = FALSE
          /\ loadCall' = NoCall
          /\ UNCHANGED <<episodes, currentEpisodeIndex, rendered, errorCalls, tasks>>]_vars

\* a load has failed for a title without episodes while the episodes of the title
\* loaded before are still in the store
C19_Witness ==
  /\ \A s \in Sources : Len(searchResults[s]) = 0
  /\ loadCall = NoCall
  /\ ~isLoading
  /\ episodes # <<>>

\* the tag of the line is one of the five ad-marker tags
IsAdMarkerLine(line) == line.kind = "tag" /\ \E tag \in AD_MARKER_TAGS : line.name = <<tag>>
IsHeaderLine(line) == line.kind = "tag" /\ line.name = <<"#EXTM3U">>

\* C20: for every playlist P, the output of filterAndNormalizeMediaPlaylist has no line
\* whose tag is one of the five ad-marker tags, and its lines are exactly the lines of
\* P that are not ad-marker lines, in their order (white space aside), with segment
\* and key references made absolute and a header line added only if P has none.
C20_FilterKeepsNonMarkerLines ==
  filterCall.done
    => LET P == filterCall.playlist
           trimmed == [i \in 1..Len(P) |-> trim(P[i])]
           nonMarker == SelectSeq(trimmed, LAMBDA l : l.kind # "blank" /\ ~IsAdMarkerLine(l))
           rewritten == [i \in 1..Len(nonMarker) |->
                           normalizeLine(nonMarker[i], filterCall.baseOk)]
           hasHeader == \E i \in 1..Len(P) : IsHeaderLine(P[i])
       IN /\ \A i \in 1..Len(filterCall.result) : ~IsAdMarkerLine(filterCall.result[i])
          /\ filterCall.result = IF hasHeader THEN rewritten ELSE <<HeaderLine>> \o rewritten

\* C21: filterAndNormalizeMediaPlaylist is idempotent: for every playlist P and base
\* URL b, filtering the output again with the same b returns the same lines.
C21_FilterIdempotent ==
  filterCall.done
    => filterAndNormalizeMediaPlaylist(filterCall.result, filterCall.baseOk) = filterCall.result

\* a playlist without a header from which an ad-marker line was removed and in which a
\* segment reference was resolved
C21_Witness ==
  /\ filterCall.done
  /\ filterCall.baseOk
  /\ Len(filterCall.playlist) = 3
  /\ \A i \in 1..3 : ~IsHeaderLine(filterCall.playlist[i])
  /\ \E i \in 1..3 : IsAdMarkerLine(filterCall.playlist[i])
  /\ \E i \in 1..3 : filterCall.playlist[i].ref = "rel"
  /\ Len(filterCall.result) = 3


\* C22: createDiscontinuityFilteredM3u8Url never passes an exception to its caller, and a
\* call in which the primary fetch, the existence check of the disk, the creation of
\* the directory or the write of the file failed returns null.
C22_BestEffort ==
  /\ engineCall.outcome # "threw"
  /\ engineCall.pc = "done" /\ engineCall.failed \cap {"fetch", "getInfo", "mkdir", "write"} # {}
       => engineCall.outcome = "null"


\* C28: a call that finds a recorded path returns it without a network fetch only if the
\* file is on the disk; if the file is missing, the mapping is removed and the playlist
\* is fetched again; and at every return of a path the file is on the disk and the map
\* holds the path for the URL.
C28_CacheHitNeedsFile ==
  [][/\ (engineCall.pc = "getInfo" /\ engineCall'.outcome = "path")
          => engineCall.url \in disk /\ engineCall'.fetches = 0
     /\ (engineCall.pc = "getInfo" /\ engineCall.url \notin disk /\ engineCall'.outcome # "threw")
          => /\ engineCall.url \notin filteredPlaylistCache'
             /\ engineCall'.pc = "fetchPrimary"
     /\ (engineCall.pc \notin {"idle", "done"} /\ engineCall'.outcome = "path")
          => /\ engineCall.url \in disk'
             /\ engineCall.url \in filteredPlaylistCache']_vars
\* a recorded file was missing, and the rebuilt playlist was returned
C28_Witness ==
  /\ engineCall.infoExists = "missing"
  /\ engineCall.outcome = "path"
  /\ engineCall.fetches > 0
  /\ engineCall.url \in disk


\* C29: when the playlist that resolveToMediaPlaylist returned has no header tag, or its
\* filtered form has no segment entry, the call returns null, writes no file and
\* records no mapping.
C29_InvalidPlaylistYieldsNull ==
  (/\ engineCall.resolved # "none"
   /\ \/ ~includesTag(engineCall.text, "#EXTM3U")
      \/ ~includesTag(filterAndNormalizeMediaPlaylist(engineCall.text, TRUE), "#EXTINF"))
    => /\ engineCall.pc = "done"
       /\ engineCall.outcome = "null"
       /\ ~engineCall.wrote
       /\ engineCall.url \notin disk
       /\ engineCall.url \notin filteredPlaylistCache
\* a master playlist none of whose variants qualified: the call fell back to the master
\* text, which has no segment entry
C29_Witness ==
  /\ engineCall.resolved = "primary"
  /\ Len(engineCall.probes) = 2
  /\ includesTag(engineCall.text, "#EXTM3U")
  /\ ~includesTag(filterAndNormalizeMediaPlaylist(engineCall.text, TRUE), "#EXTINF")
  /\ engineCall.outcome = "null"


\* the bandwidth a variant line declares: the value of its BANDWIDTH attribute, 0 when
\* it has none
DeclaredBandwidth(line) ==
  LET hits == {i \in 1..Len(line.attrs) : line.attrs[i][1] = "BANDWIDTH"}
  IN IF hits = {} THEN 0
     ELSE line.attrs[CHOOSE i \in hits : \A j \in hits : i <= j][2]
\* the declared bandwidth of the variant of a master playlist with the given URL
DeclaredOf(lines, url) ==
  LET i == CHOOSE i \in 1..Len(lines) :
             /\ startsWithTag(lines[i], "#EXT-X-STREAM-INF")
             /\ variantUriIndex(lines, i + 1) # 0
             /\ lines[variantUriIndex(lines, i + 1)].path = url
  IN DeclaredBandwidth(lines[i])
\* the variants of the master playlist whose fetch succeeds with a text that has a
\* segment entry
Qualifying ==
  {v \in VariantPaths :
     /\ \E i \in 1..Len(parseVariantPlaylistUrls(web.primary.text)) :
          parseVariantPlaylistUrls(web.primary.text)[i].url = v
     /\ web.variants[v].ok
     /\ includesTag(web.variants[v].text, "#EXTINF")}

\* C30: resolveToMediaPlaylist on a master playlist probes the variants in descending
\* order of declared bandwidth and returns the playlist of the highest-bandwidth variant
\* whose fetch succeeds with a text that has a segment entry; it returns the primary
\* playlist if no variant qualifies or the text is not a master playlist.
C30_HighestBandwidthVariant ==
  engineCall.resolved # "none" =>
    LET lines == web.primary.text
        probes == engineCall.probes
    IN /\ \A i \in 1..Len(probes) : \A j \in 1..Len(probes) :
            i < j => DeclaredOf(lines, probes[i]) >= DeclaredOf(lines, probes[j])
       /\ IF Qualifying = {}
            THEN engineCall.resolved = "primary"
            ELSE /\ engineCall.resolved \in Qualifying
                 /\ \A v \in Qualifying :
                      DeclaredOf(lines, engineCall.resolved) >= DeclaredOf(lines, v)
       /\ engineCall.resolved # "primary" => engineCall.text = web.variants[engineCall.resolved].text
       /\ engineCall.resolved = "primary" => engineCall.text = lines


\* C23: an error callback invokes the cross-source fallback (handleVideoError, which
\* marks the source as failed) only when its URL is the active url of the current
\* episode and no candidate follows currentCandidateIndex; when a candidate follows,
\* the error of the active url only advances the episode to it: no source is marked
\* failed, the detail record stays and no handleVideoError call is started.
C23_EscalationOnlyWhenExhausted ==
  [][vodOp'.name = "onError" =>
       LET e == CurrentEpisode
           hasNext == e # NoEpisode /\ e.currentCandidateIndex + 1 < Len(e.urlCandidates)
           escalates == \/ vodOp'.ret \in {"noDetail", "terminal", "escalated"}
                        \/ failedSources' # failedSources
                        \/ errorCalls' # errorCalls
                        \/ detail' # detail
       IN /\ escalates => ActiveErrorStep /\ ~hasNext
          /\ (ActiveErrorStep /\ hasNext) =>
               /\ vodOp'.ret = "switched"
               /\ ~escalates
               /\ EpisodeAt(episodes', currentEpisodeIndex').currentCandidateIndex
                    = e.currentCandidateIndex + 1
               /\ EpisodeAt(episodes', currentEpisodeIndex').urlCandidates = e.urlCandidates]_vars
\* the error of the last candidate has marked the source failed, after an earlier error
\* had advanced the episode to that candidate
C23_Witness ==
  /\ vodOp.name = "onError"
  /\ vodOp.ret \in {"terminal", "escalated"}
  /\ failedSources # {}
  /\ CurrentEpisode # NoEpisode
  /\ CurrentEpisode.currentCandidateIndex >= 1


\* C24: getAdFilteredM3u8Candidates returns at most two URLs, each the modern or the
\* legacy proxy form of the original URL, and returns the empty list when the URL is
\* missing or empty, is not HTTP(S), does not have the .m3u8 extension, or the backend
\* base URL or the source key is empty.
C24_AdFilteredCandidates ==
  candCall.done =>
    LET u == candCall.originalUrl
        r == candCall.adFilteredCandidates
    IN /\ Len(r) <= 2
       /\ \A i \in 1..Len(r) :
            r[i] \in {modernProxyUrl(u, candCall.baseUrl, candCall.sourceKey),
                      legacyProxyUrl(u, candCall.baseUrl, candCall.sourceKey)}
       /\ (\/ u \in {Undefined, EmptyUrl}
           \/ u.scheme \notin {"http", "https"}
           \/ u.ext # "m3u8"
           \/ candCall.baseUrl = EmptyBase
           \/ candCall.sourceKey = "") => r = <<>>
\* a call for an http URL of a file that is not a playlist, with a backend and a source
\* key, for which no proxy URL was built
C24_Witness ==
  /\ candCall.done
  /\ candCall.originalUrl = Raw("http", "p", "mp4")
  /\ candCall.baseUrl # EmptyBase
  /\ candCall.sourceKey # ""
  /\ candCall.adFilteredCandidates = <<>>


\* C25: after a loaded status update with a known duration and a detail record, not
\* the end of the media, showNextEpisodeOverlay is true exactly when the position is at
\* least 95% of the duration, a next episode exists and no outro marker is set; and an
\* update that does not cross an outro marker leaves currentEpisodeIndex as it is.
C25_OverlayFromNinetyFivePercent ==
  [][(/\ playOp'.name = "statusUpdate"
      /\ playOp'.newStatus.isLoaded
      /\ playOp'.newStatus.durationMillis # 0
      /\ ~playOp'.newStatus.didJustFinish
      /\ detail # NoDetail)
       => LET pos == playOp'.newStatus.positionMillis
              dur == playOp'.newStatus.durationMillis
          IN /\ showNextEpisodeOverlay' =
                  (/\ pos * 100 >= 95 * dur
                   /\ currentEpisodeIndex < Len(episodes) - 1
                   /\ ~TruthyTime(outroStartTime))
             /\ playOp'.branch = "normal" => currentEpisodeIndex' = currentEpisodeIndex]_vars


\* C26: with a loaded status and a detail record, at every playback position,
\* setIntroEndTime records the position when the intro marker is unset and clears the
\* marker when it is set, setOutroStartTime does the same with duration minus position
\* (for a known duration), and every such toggle writes the resume record at once, with
\* the new markers, whether or not the save throttle is active.
C26_MarkerToggles ==
  [][(status.isLoaded /\ detail # NoDetail) =>
       /\ playOp'.name = "setIntroEndTime" =>
            /\ introEndTime' = IF introEndTime = NoTime THEN status.positionMillis ELSE NoTime
            /\ playOp'.wrote = "immediate"
            /\ playRecords'[detail] = SavedRecord(introEndTime', outroStartTime)
       /\ (playOp'.name = "setOutroStartTime" /\ status.durationMillis # 0) =>
            /\ outroStartTime' = IF outroStartTime = NoTime
                                   THEN status.durationMillis - status.positionMillis
                                   ELSE NoTime
            /\ playOp'.wrote = "immediate"
            /\ playRecords'[detail] = SavedRecord(introEndTime, outroStartTime')]_vars


\* C27: a failing storage call does not interrupt playback: when loadVideo has resolved
\* the episodes of a title, the end of its storage reads installs the mapped episode
\* list and the requested episode index, whether the reads succeeded or one rejected.
C27_StorageFailureInstallsEpisodes ==
  [][(loadCall.pc = "storage" /\ loadCall' = NoCall)
       => /\ episodes' = mapEpisodesForPlayback(episodesSelectorBySource(loadCall.detail),
                                                loadCall.detail)
          /\ currentEpisodeIndex' = loadCall.episodeIndex
          /\ isLoading' = FALSE]_vars


\* C31: a filtered-playlist result that arrives when its run was superseded, when the
\* store has no current episode (after reset), or when the current episode is not the
\* one the run was started for (another rawUrl) is discarded: episodes stays as it is
\* and nothing is inserted.
C31_StaleResultDiscarded ==
  [][vodOp'.name = "prepareFilteredPlaylist" =>
       \A t \in tasks :
         (/\ t \notin tasks'
          /\ \/ t.canceled
             \/ CurrentEpisode = NoEpisode
             \/ CurrentEpisode.rawUrl # t.identity)
           => /\ episodes' = episodes
              /\ vodOp'.ret # "inserted"]_vars


\* C32: at most one fallback timer is pending at any time, namely the one held in
\* timeoutRef; a run of the effect on the stream URL leaves no timer pending except
\* the one it arms itself, so a timer of the previous stream URL cannot fire; and no
\* timer fires after the component was torn down.
C32_OneTimerNoStaleFiring ==
  [][/\ Cardinality(timers') <= 1
     /\ timers' \subseteq {timeoutRef'}
     /\ liveOp'.name = "streamUrlEffect"
          => Cardinality(timers') = (IF streamUrl' # NoUrl THEN 1 ELSE 0)
     /\ liveOp.name = "unmount" => liveOp'.name # "timerFire"
     /\ liveOp'.name = "unmount" => timers' = {}]_vars
\* the component was torn down while the timer of the fallback URL was armed
C32_Witness ==
  /\ liveOp.name = "unmount"
  /\ liveOp.preTimers # {}
  /\ liveOp.preSwitched
  /\ liveOp.preActive = liveOp.preFallback


\* C33: once the controller has switched to the fallback URL, an error report that
\* belongs to another URL than the fallback (the primary URL, reported late or a
\* second time) does not put the controller into the terminal failure state.
C33_TerminalOnlyForFallbackFailure ==
  [][(/\ liveOp'.name \in {"error", "onError"}
      /\ hasSwitchedRef
      /\ activeStreamUrl = fallbackStreamUrlRef
      /\ errorOf # activeStreamUrl)
       => ~isTimeout']_vars


\* C34: while handleVideoError awaits setDetail for a fallback source, a further error
\* callback marks no further source as failed; in particular the fallback source,
\* none of whose URLs was given to the render engine yet, is not marked as failed.
C34_OneSourceMarkedPerFailure ==
  [][(vodOp'.name = "onError" /\ errorCalls # {})
       => /\ failedSources' = failedSources
          /\ \A c \in errorCalls : c.fallbackSource \notin failedSources']_vars


\* C35: after reset(), as long as no loadVideo call is issued, no step writes into
\* the store: episodes stays empty and currentEpisodeIndex, initialPosition and the
\* markers stay cleared, also when a call suspended at an await completes.
C35_ResetIsFinal ==
  [][playOp.name = "reset"
       => /\ episodes' = <<>>
          /\ currentEpisodeIndex' = 0
          /\ initialPosition' = 0
          /\ introEndTime' = NoTime
          /\ outroStartTime' = NoTime]_vars


\* C36: whenever the store holds episodes, currentEpisodeIndex is an index of the
\* list, so that the current episode is defined.
C36_IndexInRange ==
  episodes # <<>> => (0 <= currentEpisodeIndex /\ currentEpisodeIndex < Len(episodes))


\* C37: the rawUrl of an episode, when it is not empty, is one of the episode's
\* urlCandidates in every state: after the mapping, after tryFallbackUrl advances and
\* after injections of a filtered playlist.
C37_RawUrlStaysCandidate ==
  \A i \in 1..Len(episodes) :
    Truthy(episodes[i].rawUrl)
      => \E j \in 1..Len(episodes[i].urlCandidates) :
           episodes[i].urlCandidates[j] = episodes[i].rawUrl
\* a filtered playlist was injected in front of the candidates and tryFallbackUrl has
\* advanced past it
C37_Witness ==
  /\ CurrentEpisode # NoEpisode
  /\ Truthy(CurrentEpisode.rawUrl)
  /\ At(CurrentEpisode.urlCandidates, 0).kind = "local"
  /\ CurrentEpisode.currentCandidateIndex >= 1
  /\ Len(CurrentEpisode.urlCandidates) >= 2


\* C38: when handleVideoError completes, the detail record is the fallback source only
\* if the episodes of the store were replaced by that source's episodes; when the
\* switch fails the detail record is still the source the episodes came from.
C38_DetailAgreesWithEpisodes ==
  [][vodOp'.name = "handleVideoError"
       => \A c \in errorCalls \ errorCalls' :
            detail' = c.fallbackSource
              => episodes' = fallbackEpisodes(c.fallbackSource)]_vars


\* C39: toggling the favorite state of a channel leaves the selected channel index,
\* and with it the channel whose URL is given to the live player, unchanged.
C39_ToggleKeepsSelection ==
  [][screenOp'.name \in {"toggleStart", "toggleStored", "toggleChannelFavorite"}
       => /\ currentChannelIndex' = currentChannelIndex
          /\ selectedChannel(channels', currentChannelIndex')
               = selectedChannel(channels, currentChannelIndex)]_vars


\* C40: once no channel load is pending and the effect has run for the current
\* selection, the channels shown and the favorite map are those of the selected
\* source, in whatever order the responses for different sources arrived.
C40_SettledShowsSelectedSource ==
  (/\ screenRuns = {}
   /\ effectDeps = [key |-> selectedSourceKey, sameCache |-> TRUE]
   /\ selectedSourceKey # NoSourceKey
   /\ loadError = NoLoadError)
    => /\ channels = supportedChannels(selectedSourceKey)
       /\ favoriteMap = favoritesBySource(liveFavorites, selectedSourceKey)

====
